---- MODULE Spec2Model ----
(***************************************************************************)
(* A model of the Travver backend's agentic core:                          *)
(*   - OpenAIService.chat_completion and its tenacity retry decorator      *)
(*     (services/openai_service.py),                                       *)
(*   - OpenAIService.execute_with_tools, the tool-calling loop,            *)
(*   - TravelPlannerAgent.generate_plan with its reply parser and its      *)
(*     rule-based fallback generator (agents/travel_planner_agent.py).     *)
(*   - ExchangeTool.get_exchange_rate and PlacesTool.search_places          *)
(*     (tools/), TravelConsultantAgent.chat and chat_stream, and the       *)
(*     streaming endpoint of routes/agent.py.                              *)
(*   - the trip store of routes/travel.py and the consultant's translate  *)
(*     handler over tools/translate_tool.py.                               *)
(* The specifications: SpecChat (chat_completion calls), Spec              *)
(* (execute_with_tools runs), SpecPlan (generate_plan calls), SpecPlanner  *)
(* (generate_plan over the tool loop), SpecExchange, SpecPlaces,           *)
(* SpecConsult (chat over the tool loop), SpecStream, SpecStore,           *)
(* SpecTranslate and SpecGeocode (overlapping _geocode lookups).           *)
(***************************************************************************)
EXTENDS Integers, Sequences, FiniteSets, TLC

VARIABLES
    \* ---- OpenAIService ----
    client_configured,  \* self.client is not None
    cc_pc,              \* chat_completion: "idle" | "running" | "returned" | "raised"
    cc_request,         \* the running call's arguments (tools given, tool_choice)
    cc_attempt,         \* tenacity's attempt_number of the running call
    cc_result,          \* what the finished call gave its caller
    cc_log,             \* history: the provider requests of the running/last call
    \* ---- execute_with_tools ----
    pc,                 \* position of the run
    messages,           \* the caller's list
    max_iterations,
    current_messages,
    tools_used,
    iteration,
    response,           \* the loop's current response
    tc_idx,             \* index of the tool call being processed (0-based loop position + 1)
    requests,           \* history: every chat_completion call of the run
    handler_log,        \* history: every handler invocation of the run
    exec_log,           \* history: how each processed tool call ended
    result,             \* the returned dict
    \* ---- generate_plan ----
    plan_pc,
    plan_in,            \* the call's arguments
    llm,                \* what the LLM stage does in this call
    exchange_info,
    places_info,
    search_log,         \* history: the search_places calls of _collect_places, started and ended
    daily_plans,
    plan_source,        \* history: "none" | "llm" | "mock"
    trip,
    \* ---- ExchangeTool ----
    ex_cache,           \* ExchangeTool._cache, by cache key
    ex_args,            \* the last call's arguments
    ex_result,          \* what the last call returned
    ex_log,             \* history: how the last call got its result
    \* ---- TravelConsultantAgent.chat ----
    consult_pc,         \* "idle" | "calling" | "returned" | "raised"
    consult_in,         \* the call's arguments (message, history)
    consult_result,     \* the returned dict
    \* ---- chat_stream and the streaming endpoint ----
    stream_pc,          \* chat_stream: "idle" | "created" | "streaming" | "fallback" | "done" | "raised"
    stream_in,          \* the call's arguments (message, history)
    stream_out,         \* history: what chat_stream has yielded
    stream_log,         \* history: the backend stream (requested, chunks produced, failed)
    sse_pc,             \* generate(): "idle" | "running" | "terminal" | "closed"
    frames,             \* history: what generate() has yielded
    \* ---- PlacesTool ----
    places_configured,  \* bool(self.api_key)
    geocode_cache,      \* PlacesTool._geocode_cache, by location
    sp_args,            \* the last search_places call's arguments
    sp_result,          \* what it gave its caller
    sp_log,             \* history: the requests it made and the path it took
    \* ---- routes/travel.py ----
    trips_db,           \* _trips_db, by trip id
    store_log,          \* history: the last store operation and its HTTP status
    \* ---- TravelConsultantAgent._handle_translate ----
    tr_args,            \* the last call's arguments
    tr_result,          \* the dict it returned
    tr_log,             \* history: the completion request it made, if any
    \* ---- concurrent PlacesTool._geocode calls ----
    geo_calls,          \* by caller: position, location argument, returned value
    geo_log             \* history: the (location, coordinates) answers of the provider

exec_vars == <<pc, messages, max_iterations, current_messages, tools_used, iteration,
               response, tc_idx, requests, handler_log, exec_log, result>>
chat_vars == <<client_configured, cc_pc, cc_request, cc_attempt, cc_result, cc_log>>
plan_vars == <<plan_pc, plan_in, llm, exchange_info, places_info, search_log, daily_plans,
               plan_source, trip>>
exchange_vars == <<ex_cache, ex_args, ex_result, ex_log>>
consult_vars == <<consult_pc, consult_in, consult_result>>
stream_vars == <<stream_pc, stream_in, stream_out, stream_log, sse_pc, frames>>
places_vars == <<places_configured, geocode_cache, sp_args, sp_result, sp_log>>
store_vars == <<trips_db, store_log>>
translate_vars == <<tr_args, tr_result, tr_log>>
geocode_vars == <<geo_calls, geo_log>>
ext_vars == <<store_vars, translate_vars, geocode_vars>>
aux_vars == <<exchange_vars, consult_vars, stream_vars, places_vars, ext_vars>>
vars == <<chat_vars, exec_vars, plan_vars, aux_vars>>

NULL == "null"

\* ------------------------------------------------------------------ bounds
MaxIter == 2          \* largest max_iterations a run is started with
MaxToolCalls == 3     \* tool calls the model requests in one run, in total
MaxCalls == 2         \* chat_completion calls of SpecChat
CannedLen == 3        \* characters of a canned response
MaxChunks == 2        \* chunks one backend stream delivers
MaxResults == 6       \* largest max_results search_places is called with
MaxProviderResults == 2   \* places one text search answers with
MaxGeocodeCallers == 2    \* search_places calls that are in _geocode at the same time

\* --------------------------------------------------------------- exceptions
\* core/exceptions.py's classes (and openai.OpenAIError), by their base class.
ExceptionBase(c) ==
    CASE c = "OpenAIException" -> "AIServiceException"
      [] c = "AIServiceException" -> "TravverException"
      [] c = "RateLimitException" -> "TravverException"
      [] c = "TravverException" -> "Exception"
      [] c = "OpenAIError" -> "Exception"
      [] c = "RetryError" -> "Exception"
      [] c = "JSONDecodeError" -> "Exception"
      [] c = "AttributeError" -> "Exception"
      [] c = "KeyError" -> "Exception"
      [] c = "ValidationError" -> "Exception"
      [] OTHER -> "object"

RECURSIVE IsInstance(_, _)
IsInstance(c, cls) ==
    IF c = cls THEN TRUE
    ELSE IF c = "object" THEN FALSE
    ELSE IsInstance(ExceptionBase(c), cls)

\* ------------------------------------------------------------ chat_completion
Contents == {NULL, "", "text"}
TruthyUnlessNone(content) == content # NULL

\* Python's truth value of response["content"]: None and "" are false.
Truthy(content) == content # NULL /\ content # ""

ToolNames == {"search_places", "bogus_tool"}
tool_handlers == {"search_places"}
ValidArgs == "{}"
BadArgs == "{oops"
\* The tool calls a model response is drawn from: a known tool and an unknown tool,
\* each with an arguments string that is JSON and with one that is not.
ToolCallKinds ==
    { [name |-> "search_places", arguments |-> ValidArgs],
      [name |-> "bogus_tool", arguments |-> ValidArgs],
      [name |-> "search_places", arguments |-> BadArgs],
      [name |-> "bogus_tool", arguments |-> BadArgs] }
JsonLoadsOk(s) == s = ValidArgs

RECURSIVE SeqsUpTo(_, _)
SeqsUpTo(S, n) ==
    IF n = 0 THEN {<<>>}
    ELSE LET shorter == SeqsUpTo(S, n - 1)
         IN shorter \cup {Append(s, x) : s \in {t \in shorter : Len(t) = n - 1}, x \in S}

\* tool_calls as the provider returns them: ids are the provider's, fresh per call.
WithIds(kinds, base) ==
    [i \in 1..Len(kinds) |->
        [id |-> base + i, name |-> kinds[i].name, arguments |-> kinds[i].arguments]]

\* What one provider request can do: fail with an OpenAIError (rate limit, transport)
\* or answer.
ProviderErrors == {"rate_limit", "transport"}
ProviderAnswer(content, tool_calls) ==
    [ok |-> TRUE, error |-> "none", content |-> content, tool_calls |-> tool_calls]
ProviderFailure(e) ==
    [ok |-> FALSE, error |-> e, content |-> NULL, tool_calls |-> <<>>]

Returned(content, tool_calls) ==
    [kind |-> "return", exc |-> "none", content |-> content, tool_calls |-> tool_calls]
Raised(exc) ==
    [kind |-> "raise", exc |-> exc, content |-> NULL, tool_calls |-> <<>>]
NoResult == [kind |-> "none", exc |-> "none", content |-> NULL, tool_calls |-> <<>>]

MaxAttempts == 3

ChatCompletionBodyFabricates(configured, outcome) ==
    IF ~configured THEN Returned("text", <<>>)
    ELSE IF outcome.ok THEN Returned(outcome.content, outcome.tool_calls)
    ELSE IF outcome.error = "rate_limit" THEN Raised("RateLimitException")
    ELSE Raised("OpenAIException")

\* The decorated function's body, one attempt (lines 64-122).  `outcome` is what the
\* provider request does if it is issued.
ChatCompletionBody(configured, outcome) ==
    IF ~configured THEN Raised("OpenAIException")
    ELSE IF outcome.ok THEN Returned(outcome.content, outcome.tool_calls)
    ELSE IF outcome.error = "rate_limit" THEN Raised("RateLimitException")
    ELSE Raised("OpenAIException")

\* Whether the body issued the provider request (line 80 is reached).
IssuesProviderRequest(configured) == configured

\* retry=retry_if_exception_type(OpenAIError)
RetryPredicate(exc) == IsInstance(exc, "OpenAIError")

\* The provider's possible behaviours for the running call's request.  A request
\* that offers no tools gets no tool calls back; one that offers tools may get
\* some whatever tool_choice says (the loop does not rely on the provider there).
\* Ids continue after those of the calls already processed in the run.
ProviderOutcomes ==
    {ProviderFailure(e) : e \in ProviderErrors}
    \cup {ProviderAnswer(c, WithIds(k, Len(exec_log))) :
            c \in Contents,
            k \in IF cc_request.tools
                  THEN SeqsUpTo(ToolCallKinds, MaxToolCalls - Len(exec_log))
                  ELSE {<<>>}}

\* One attempt of the running call followed by tenacity's decision
\* (stop_after_attempt(3), no reraise: exhaustion raises RetryError).
ChatCompletionAttempt ==
    /\ cc_pc = "running"
    /\ \E outcome \in ProviderOutcomes :
        LET r == ChatCompletionBody(client_configured, outcome)
        IN /\ cc_log' = IF IssuesProviderRequest(client_configured)
                        THEN Append(cc_log, outcome) ELSE cc_log
           /\ IF r.kind = "raise" /\ RetryPredicate(r.exc)
              THEN IF cc_attempt >= MaxAttempts
                   THEN /\ cc_pc' = "raised"
                        /\ cc_result' = Raised("RetryError")
                        /\ cc_attempt' = cc_attempt
                   ELSE /\ cc_pc' = "running"
                        /\ cc_result' = cc_result
                        /\ cc_attempt' = cc_attempt + 1
              ELSE /\ cc_pc' = IF r.kind = "raise" THEN "raised" ELSE "returned"
                   /\ cc_result' = r
                   /\ cc_attempt' = cc_attempt
    /\ UNCHANGED <<aux_vars, client_configured, cc_request, exec_vars, plan_vars>>

\* A call of chat_completion(messages, tools, tool_choice): the state the decorated
\* function starts in.
StartCall(tools, tool_choice) ==
    /\ cc_pc' = "running"
    /\ cc_request' = [tools |-> tools, tool_choice |-> tool_choice]
    /\ cc_attempt' = 1
    /\ cc_result' = NoResult
    /\ cc_log' = <<>>
    /\ UNCHANGED client_configured

\* SpecChat's caller: any code that calls chat_completion.
ChatCompletionCall ==
    /\ pc = "idle" /\ plan_pc = "idle"
    /\ cc_pc \in {"idle", "returned", "raised"}
    /\ Len(requests) < MaxCalls
    /\ \E tools \in BOOLEAN, tool_choice \in {"auto", "none"} :
        /\ StartCall(tools, tool_choice)
        /\ requests' = Append(requests, [messages |-> messages, tools |-> tools,
                                         tool_choice |-> tool_choice, at |-> "direct"])
    /\ UNCHANGED <<aux_vars, pc, messages, max_iterations, current_messages, tools_used, iteration,
                   response, tc_idx, handler_log, exec_log, result, plan_vars>>

\* --------------------------------------------------------- execute_with_tools
Msg(role, content) ==
    [role |-> role, content |-> content, tool_calls |-> <<>>, tool_call_id |-> 0]
AssistantMsg(content, tool_calls) ==
    [role |-> "assistant", content |-> content, tool_calls |-> tool_calls, tool_call_id |-> 0]
ToolMsgStaleId(id, content) ==
    [role |-> "tool", content |-> content, tool_calls |-> <<>>,
     tool_call_id |-> IF id > 1 THEN id - 1 ELSE id]

ToolMsg(id, content) ==
    [role |-> "tool", content |-> content, tool_calls |-> <<>>, tool_call_id |-> id]

InitialMessages == <<Msg("system", "prompt"), Msg("user", "question")>>

\* response["content"] or ""
OrEmpty(content) == IF Truthy(content) THEN content ELSE ""

\* Lines 220-231: the assistant message built from the response.
assistant_message(resp) ==
    AssistantMsg(OrEmpty(resp.content),
                 [i \in 1..Len(resp.tool_calls) |->
                    [id |-> resp.tool_calls[i].id, type |-> "function",
                     name |-> resp.tool_calls[i].name,
                     arguments |-> resp.tool_calls[i].arguments]])

\* json.dumps of a handler's result and of the two error dicts (lines 245-250).
ResultPayload(name) == "result of search_places"
HandlerErrorPayload == "error: handler failed"
UnknownToolPayload(name) == "error: Unknown tool: bogus_tool"

HandlerOutcomes(name) ==
    IF name \in tool_handlers THEN {"ok", "raise"} ELSE {"unknown"}

tool_result(name, outcome) ==
    IF name \in tool_handlers
    THEN IF outcome = "ok" THEN ResultPayload(name) ELSE HandlerErrorPayload
    ELSE UnknownToolPayload(name)

ReturnDictCountsFromZero(content) ==
    [content |-> content, tools_used |-> tools_used, iterations |-> iteration - 1]

ReturnDict(content) ==
    [content |-> content, tools_used |-> tools_used, iterations |-> iteration]
NoDict == [content |-> NULL, tools_used |-> <<>>, iterations |-> 0]

LogRequest(tools, tool_choice, at) ==
    requests' = Append(requests, [messages |-> current_messages, tools |-> tools,
                                  tool_choice |-> tool_choice, at |-> at])

\* Line 187: while iteration < max_iterations.
LoopTestOffByOne(i, m) == i <= m

LoopTest(i, m) == i < m

\* The two list objects of a run: the one the caller passed in and the one
\* current_messages names.  Line 183 makes the second with messages.copy(), a new
\* list object, so the appends of lines 232 and 252 do not reach the caller's.
CallerList == "messages"
PrivateList == "current_messages"

list_alias(obj) == obj

list_copy(obj) == PrivateList

\* The caller's list after current_messages.append(message).
CallerListAfterAppend(caller, message) ==
    IF list_copy(CallerList) = CallerList THEN Append(caller, message) ELSE caller

\* Lines 183-185.
ExecuteWithTools ==
    /\ pc = "idle" /\ plan_pc \in {"idle", "calling"} /\ cc_pc = "idle"
    /\ current_messages' = messages
    /\ tools_used' = <<>>
    /\ iteration' = 0
    /\ pc' = "loop"
    /\ UNCHANGED <<aux_vars, messages, max_iterations, response, tc_idx, requests, handler_log,
                   exec_log, result, chat_vars, plan_vars>>

ToolChoiceAlwaysAuto(i, m) == "auto"

\* Line 194: "auto" if iteration < max_iterations else "none".
ToolChoice(i, m) == IF i < m THEN "auto" ELSE "none"

\* Lines 187-195: the loop test, and the iteration's chat_completion call.
LoopCall ==
    /\ pc = "loop"
    /\ LoopTest(iteration, max_iterations)
    /\ iteration' = iteration + 1
    /\ LET tool_choice == ToolChoice(iteration + 1, max_iterations)
       IN /\ StartCall(TRUE, tool_choice)
          /\ LogRequest(TRUE, tool_choice, "loop")
    /\ pc' = "await_loop"
    /\ UNCHANGED <<aux_vars, messages, max_iterations, current_messages, tools_used, response,
                   tc_idx, handler_log, exec_log, result, plan_vars>>

\* Lines 197-232: what the loop does with the call's result.
LoopResume ==
    /\ pc = "await_loop"
    /\ cc_pc \in {"returned", "raised"}
    /\ IF cc_pc = "raised"
       THEN /\ pc' = "raised"
            /\ UNCHANGED <<response, current_messages, tc_idx, requests, result, chat_vars>>
       ELSE /\ response' = cc_result
            /\ IF cc_result.tool_calls = <<>>
               THEN IF ~Truthy(cc_result.content)
                    THEN /\ StartCall(FALSE, "auto")
                         /\ LogRequest(FALSE, "auto", "recovery")
                         /\ pc' = "await_recovery"
                         /\ UNCHANGED <<current_messages, tc_idx, result>>
                    ELSE /\ result' = ReturnDict(cc_result.content)
                         /\ pc' = "returned"
                         /\ UNCHANGED <<current_messages, tc_idx, requests, chat_vars>>
               ELSE /\ current_messages' = Append(current_messages, assistant_message(cc_result))
                    /\ tc_idx' = 1
                    /\ pc' = "tools"
                    /\ UNCHANGED <<requests, result, chat_vars>>
    /\ messages' = IF cc_pc = "returned" /\ cc_result.tool_calls # <<>>
                   THEN CallerListAfterAppend(messages, assistant_message(cc_result))
                   ELSE messages
    /\ UNCHANGED <<aux_vars, max_iterations, tools_used, iteration, handler_log,
                   exec_log, plan_vars>>

\* Lines 207-211: the recovery call's content is returned as it is.
RecoveryResume ==
    /\ pc = "await_recovery"
    /\ cc_pc \in {"returned", "raised"}
    /\ IF cc_pc = "raised"
       THEN pc' = "raised" /\ UNCHANGED result
       ELSE pc' = "returned" /\ result' = ReturnDict(cc_result.content)
    /\ UNCHANGED <<aux_vars, messages, max_iterations, current_messages, tools_used, iteration,
                   response, tc_idx, requests, handler_log, exec_log, chat_vars, plan_vars>>

\* Lines 236-250: what one pass of the for loop does with its tool call, given what
\* the handler does when it is invoked.  json.loads is outside the try block and
\* before tools_used.append; the handler call is inside it.
ToolCallEffectNoCatch(tool_call, outcome) ==
    IF ~JsonLoadsOk(tool_call.arguments) \/ outcome = "raise"
    THEN [aborts |-> TRUE, recorded |-> outcome = "raise", invoked |-> outcome = "raise",
          payload |-> NULL]
    ELSE [aborts |-> FALSE, recorded |-> TRUE, invoked |-> tool_call.name \in tool_handlers,
          payload |-> tool_result(tool_call.name, outcome)]

ToolCallEffect(tool_call, outcome) ==
    IF ~JsonLoadsOk(tool_call.arguments)
    THEN [aborts |-> TRUE, recorded |-> FALSE, invoked |-> FALSE, payload |-> NULL]
    ELSE [aborts |-> FALSE, recorded |-> TRUE, invoked |-> tool_call.name \in tool_handlers,
          payload |-> tool_result(tool_call.name, outcome)]

\* Lines 235-256: one pass of the for loop over response["tool_calls"].
ExecuteToolCall ==
    /\ pc = "tools"
    /\ LET tool_call == response.tool_calls[tc_idx]
           func_name == tool_call.name
       IN \E outcome \in (IF JsonLoadsOk(tool_call.arguments)
                          THEN HandlerOutcomes(func_name) ELSE {"bad_arguments"}) :
          LET eff == ToolCallEffect(tool_call, outcome)
          IN /\ exec_log' = Append(exec_log, [id |-> tool_call.id, name |-> func_name,
                                              outcome |-> outcome])
             /\ tools_used' = IF eff.recorded THEN Append(tools_used, func_name)
                              ELSE tools_used
             /\ handler_log' = IF eff.invoked THEN Append(handler_log, tool_call.id)
                               ELSE handler_log
             /\ IF eff.aborts
                THEN /\ pc' = "raised"
                     /\ UNCHANGED <<messages, current_messages, tc_idx>>
                ELSE /\ current_messages' = Append(current_messages,
                                                   ToolMsg(tool_call.id, eff.payload))
                     /\ messages' = CallerListAfterAppend(messages,
                                                          ToolMsg(tool_call.id, eff.payload))
                     /\ IF tc_idx < Len(response.tool_calls)
                        THEN tc_idx' = tc_idx + 1 /\ pc' = "tools"
                        ELSE tc_idx' = tc_idx /\ pc' = "loop"
    /\ UNCHANGED <<aux_vars, max_iterations, iteration, response, requests, result,
                   chat_vars, plan_vars>>

\* Lines 258-262: the loop is exhausted.
FinalCall ==
    /\ pc = "loop"
    /\ ~LoopTest(iteration, max_iterations)
    /\ StartCall(FALSE, "auto")
    /\ LogRequest(FALSE, "auto", "final")
    /\ pc' = "await_final"
    /\ UNCHANGED <<aux_vars, messages, max_iterations, current_messages, tools_used, iteration,
                   response, tc_idx, handler_log, exec_log, result, plan_vars>>

\* Lines 264-268.
FinalResume ==
    /\ pc = "await_final"
    /\ cc_pc \in {"returned", "raised"}
    /\ IF cc_pc = "raised"
       THEN pc' = "raised" /\ UNCHANGED result
       ELSE pc' = "returned" /\ result' = ReturnDict(cc_result.content)
    /\ UNCHANGED <<aux_vars, messages, max_iterations, current_messages, tools_used, iteration,
                   response, tc_idx, requests, handler_log, exec_log, chat_vars, plan_vars>>

\* ------------------------------------------------------------- travel models
\* models/travel.py.  Dates are day ordinals; coordinates are degrees * 10^4;
\* a time is the sequence of its characters.  Place names are romanised.
PlaceCategory == {"food", "sightseeing", "accommodation", "activity", "shopping",
                  "transport", "rest", "photo"}
Digits == {"0", "1", "2", "3", "4", "5", "6", "7", "8", "9"}
T(a, b, c, d) == <<a, b, ":", c, d>>

\* Schedule.time: pattern ^\d{2}:\d{2}$
TimePattern(time) ==
    /\ Len(time) = 5
    /\ time[1] \in Digits /\ time[2] \in Digits
    /\ time[3] = ":"
    /\ time[4] \in Digits /\ time[5] \in Digits

LocationValid(lat, lng) ==
    /\ lat >= -900000 /\ lat <= 900000
    /\ lng >= -1800000 /\ lng <= 1800000

ScheduleFieldsValid(order, time, place, category, duration_min, estimated_cost, lat, lng) ==
    /\ order >= 1
    /\ TimePattern(time)
    /\ place # ""
    /\ category \in PlaceCategory
    /\ duration_min >= 15 /\ duration_min <= 480
    /\ estimated_cost >= 0
    /\ LocationValid(lat, lng)

Schedule(order, time, place, category, duration_min, estimated_cost, lat, lng) ==
    [order |-> order, time |-> time, place |-> place, category |-> category,
     duration_min |-> duration_min, estimated_cost |-> estimated_cost,
     lat |-> lat, lng |-> lng]

DailyPlan(day, date, theme, schedules) ==
    [day |-> day, date |-> date, theme |-> theme, schedules |-> schedules]

\* ------------------------------------------------------- fallback generator
\* _get_real_places: the static table (lines 422-489).
places_db_Osaka ==
    [ themes |-> <<"Dotonbori and Namba", "Osaka Castle and history", "Shinsekai and local food", "Umeda and shopping">>,
      breakfast |-> <<
          [name |-> "Ichiran Ramen Dotonbori", lat |-> 346687, lng |-> 1355013],
          [name |-> "Marugame Seimen Namba", lat |-> 346654, lng |-> 1355014],
          [name |-> "Eggslut Osaka", lat |-> 347025, lng |-> 1354959],
          [name |-> "Hard Rock Cafe Osaka", lat |-> 346686, lng |-> 1354299] >>,
      sightseeing |-> <<
          [name |-> "Osaka Castle Tenshukaku", lat |-> 346873, lng |-> 1355262],
          [name |-> "Dotonbori Glico Sign", lat |-> 346687, lng |-> 1355010],
          [name |-> "Tsutenkaku Tower", lat |-> 346525, lng |-> 1355063],
          [name |-> "Umeda Sky Building Garden", lat |-> 347052, lng |-> 1354906] >>,
      lunch |-> <<
          [name |-> "Kura Sushi Dotonbori", lat |-> 346690, lng |-> 1355025],
          [name |-> "Harukas Dining", lat |-> 346463, lng |-> 1355138],
          [name |-> "Chibo Main", lat |-> 346685, lng |-> 1355013],
          [name |-> "Kiji Main", lat |-> 347048, lng |-> 1354948] >>,
      activity |-> <<
          [name |-> "Universal Studios Japan", lat |-> 346654, lng |-> 1354323],
          [name |-> "Shinsekai Janjan Yokocho", lat |-> 346520, lng |-> 1355060],
          [name |-> "Kuromon Market", lat |-> 346668, lng |-> 1355069],
          [name |-> "Den Den Town", lat |-> 346598, lng |-> 1355056] >>,
      dinner |-> <<
          [name |-> "Kanzaki Gatten Sushi", lat |-> 346977, lng |-> 1354912],
          [name |-> "Daruma Shinsekai Main", lat |-> 346522, lng |-> 1355059],
          [name |-> "Ajinoya Main", lat |-> 346525, lng |-> 1355065],
          [name |-> "Matsuriya", lat |-> 347005, lng |-> 1354973] >> ]

places_db_Jeju ==
    [ themes |-> <<"Jeju City and Dongmun Market", "Seongsan Ilchulbong and the east", "Seogwipo and Jungmun", "Aewol and western cafes">>,
      breakfast |-> <<
          [name |-> "Olle Guksu", lat |-> 335121, lng |-> 1265232],
          [name |-> "Samdae Guksu Hoegwan", lat |-> 334996, lng |-> 1265287],
          [name |-> "Woojin Haejangguk", lat |-> 334912, lng |-> 1264935],
          [name |-> "Myeongjin Jeonbok Main", lat |-> 335025, lng |-> 1265412] >>,
      sightseeing |-> <<
          [name |-> "Seongsan Ilchulbong", lat |-> 334587, lng |-> 1269425],
          [name |-> "Manjanggul", lat |-> 335282, lng |-> 1267712],
          [name |-> "Cheonjiyeon Falls", lat |-> 332469, lng |-> 1265548],
          [name |-> "Hallasan Eorimok Trail", lat |-> 333617, lng |-> 1264969] >>,
      lunch |-> <<
          [name |-> "Jeju Kim Manbok Main", lat |-> 335012, lng |-> 1265287],
          [name |-> "Donsadon Main", lat |-> 334856, lng |-> 1264923],
          [name |-> "Miyeongine Sikdang", lat |-> 332512, lng |-> 1265612],
          [name |-> "Jamae Guksu", lat |-> 332469, lng |-> 1265023] >>,
      activity |-> <<
          [name |-> "Seopjikoji", lat |-> 334240, lng |-> 1269296],
          [name |-> "Udo", lat |-> 335063, lng |-> 1269520],
          [name |-> "Camellia Hill", lat |-> 332898, lng |-> 1263689],
          [name |-> "Aqua Planet Jeju", lat |-> 334337, lng |-> 1269269] >>,
      dinner |-> <<
          [name |-> "Black Pork Street Donsadon", lat |-> 334856, lng |-> 1264923],
          [name |-> "Gwanghae Hoe Guksu", lat |-> 334687, lng |-> 1269165],
          [name |-> "Jeju Dongmun Night Market", lat |-> 335125, lng |-> 1265260],
          [name |-> "Oneunjeong Gimbap", lat |-> 332512, lng |-> 1265123] >> ]

KnownDestinations == {"Osaka", "Jeju"}

\* Line 490: places_db.get(destination, places_db["Osaka"]).
get_real_places(destination) ==
    IF destination = "Jeju" THEN places_db_Jeju ELSE places_db_Osaka

\* entries[day % len(entries)] for a 0-based day.
Cycle(entries, day) == entries[(day % Len(entries)) + 1]

\* int(daily_budget * fraction), the fraction given in percent.
CostShare(daily_budget, percent) == (daily_budget * percent) \div 100

\* Lines 522-573: the five schedule items of 0-based day `day`.
MockSchedules(places, day, daily_budget) ==
    LET breakfast == Cycle(places.breakfast, day)
        sightseeing == Cycle(places.sightseeing, day)
        lunch == Cycle(places.lunch, day)
        activity == Cycle(places.activity, day)
        dinner == Cycle(places.dinner, day)
    IN << Schedule(1, T("0", "9", "3", "0"), breakfast.name, "food", 60,
                   CostShare(daily_budget, 10), breakfast.lat, breakfast.lng),
          Schedule(2, T("1", "1", "0", "0"), sightseeing.name, "sightseeing", 120,
                   CostShare(daily_budget, 15), sightseeing.lat, sightseeing.lng),
          Schedule(3, T("1", "3", "3", "0"), lunch.name, "food", 90,
                   CostShare(daily_budget, 20), lunch.lat, lunch.lng),
          Schedule(4, T("1", "5", "3", "0"), activity.name, "activity", 120,
                   CostShare(daily_budget, 25), activity.lat, activity.lng),
          Schedule(5, T("1", "8", "0", "0"), dinner.name, "food", 120,
                   CostShare(daily_budget, 30), dinner.lat, dinner.lng) >>

\* Lines 511-580: the daily plan of 0-based day `day`.
MockDayShiftedDate(places, start_date, day, daily_budget) ==
    DailyPlan(day + 1, start_date + day + 1, Cycle(places.themes, day),
              MockSchedules(places, day, daily_budget))

MockDay(places, start_date, day, daily_budget) ==
    DailyPlan(day + 1, start_date + day, Cycle(places.themes, day),
              MockSchedules(places, day, daily_budget))

\* _generate_mock_plans (lines 492-582).
generate_mock_plans(destination, start_date, end_date, budget, styles, places) ==
    LET num_days == (end_date - start_date) + 1
        daily_budget == IF num_days > 0 THEN budget \div num_days ELSE budget
        real == get_real_places(destination)
    IN [day \in 1..(IF num_days > 0 THEN num_days ELSE 0) |->
            MockDay(real, start_date, day - 1, daily_budget)]

\* ------------------------------------------------------------ the LLM reply
\* The reply text as a sequence of tokens: braces, a fence marker, prose without
\* braces, and the members of a JSON object (its parsed value in `data`).
NoData == [has_daily_plans |-> FALSE, daily_plans |-> <<>>]
Tok(t) == [t |-> t, data |-> NoData]
LB == Tok("{")
RB == Tok("}")
PROSE == Tok("prose")
FENCE == Tok("fence")
Members(data) == [t |-> "members", data |-> data]
Text(toks) == [null |-> FALSE, toks |-> toks]
NullContent == [null |-> TRUE, toks |-> <<>>]

\* content.find("{") and content.rfind("}") + 1, as Python counts (0-based).
RECURSIVE Find(_, _, _)
Find(toks, t, i) ==
    IF i > Len(toks) THEN -1
    ELSE IF toks[i].t = t THEN i - 1
    ELSE Find(toks, t, i + 1)

RECURSIVE RFind(_, _, _)
RFind(toks, t, i) ==
    IF i < 1 THEN -1
    ELSE IF toks[i].t = t THEN i - 1
    ELSE RFind(toks, t, i - 1)

\* content[json_start:json_end]
Slice(toks, from, to) ==
    IF to <= from THEN <<>> ELSE SubSeq(toks, from + 1, to)

\* json.loads: the text is one JSON object, without or with members.
JsonLoads(toks) ==
    IF toks = <<LB, RB>> THEN [ok |-> TRUE, data |-> NoData]
    ELSE IF Len(toks) = 3 /\ toks[1] = LB /\ toks[2].t = "members" /\ toks[3] = RB
         THEN [ok |-> TRUE, data |-> toks[2].data]
    ELSE [ok |-> FALSE, data |-> NoData]

\* One entry of the schedules list of a plan: its values and the keys it lacks.
SchedData(order, time, place, category, duration_min, lat, missing) ==
    [order |-> order, time |-> time, place |-> place, category |-> category,
     duration_min |-> duration_min, estimated_cost |-> 15000,
     lat |-> lat, lng |-> 1355065, missing |-> missing]

RequiredKeys == {"order", "time", "place", "category", "duration_min", "location"}

\* Lines 383-399: Schedule(...) under try/except; TRUE when the item is kept.
ScheduleParses(sd) ==
    /\ sd.missing \cap RequiredKeys = {}
    /\ ScheduleFieldsValid(sd.order, sd.time, sd.place, sd.category, sd.duration_min,
                           sd.estimated_cost, sd.lat, sd.lng)

ParsedSchedule(sd) ==
    Schedule(sd.order, sd.time, sd.place, sd.category, sd.duration_min,
             sd.estimated_cost, sd.lat, sd.lng)

ParseSchedulesAbortsDay(items) ==
    IF \A k \in 1..Len(items) : ScheduleParses(items[k])
    THEN [k \in 1..Len(items) |-> ParsedSchedule(items[k])]
    ELSE <<>>

\* Lines 381-399: the loop over a day's schedules; an item whose Schedule(...)
\* raises is skipped.
RECURSIVE ParseSchedules(_)
ParseSchedules(items) ==
    IF items = <<>> THEN <<>>
    ELSE (IF ScheduleParses(items[1]) THEN <<ParsedSchedule(items[1])>> ELSE <<>>)
         \o ParseSchedules(Tail(items))

\* One entry of the daily_plans list.
PlanData(has_day, day, date_kind, date, theme, schedules) ==
    [has_day |-> has_day, day |-> day, date_kind |-> date_kind, date |-> date,
     theme |-> theme, schedules |-> schedules]

ParseOk(plans) == [kind |-> "return", exc |-> "none", plans |-> plans]
ParseRaise(exc) == [kind |-> "raise", exc |-> exc, plans |-> <<>>]

RECURSIVE ParsePlans(_, _, _)
ParsePlansKeepsParsed(plan_list, start_date, acc) ==
    IF plan_list = <<>> THEN ParseOk(acc)
    ELSE LET plan_data == plan_list[1]
             schedules == ParseSchedules(plan_data.schedules)
         IN IF schedules = <<>> THEN ParsePlans(Tail(plan_list), start_date, acc)
            ELSE IF plan_data.date_kind = "invalid" \/ ~plan_data.has_day \/ plan_data.day < 1
                 THEN ParseOk(acc)
            ELSE ParsePlans(Tail(plan_list), start_date,
                            Append(acc, DailyPlan(plan_data.day,
                                                  IF plan_data.date_kind = "valid"
                                                  THEN plan_data.date
                                                  ELSE start_date + (plan_data.day - 1),
                                                  plan_data.theme, schedules)))

\* Lines 380-412: the loop over the daily_plans list; acc is daily_plans so far.
ParsePlans(plan_list, start_date, acc) ==
    IF plan_list = <<>> THEN ParseOk(acc)
    ELSE LET plan_data == plan_list[1]
             schedules == ParseSchedules(plan_data.schedules)
         IN IF schedules = <<>> THEN ParsePlans(Tail(plan_list), start_date, acc)
            ELSE IF plan_data.date_kind = "invalid" THEN ParseRaise("ValueError")
            ELSE IF ~plan_data.has_day THEN ParseRaise("KeyError")
            ELSE IF plan_data.day < 1 THEN ParseRaise("ValidationError")
            ELSE LET plan_date == IF plan_data.date_kind = "valid" THEN plan_data.date
                                  ELSE start_date + (plan_data.day - 1)
                 IN ParsePlans(Tail(plan_list), start_date,
                               Append(acc, DailyPlan(plan_data.day, plan_date,
                                                     plan_data.theme, schedules)))

\* _parse_daily_plans (lines 361-418).
parse_daily_plans(content, start_date) ==
    IF content.null THEN ParseRaise("AttributeError")
    ELSE LET json_start == Find(content.toks, "{", 1)
             json_end == RFind(content.toks, "}", Len(content.toks)) + 1
         IN IF json_start = -1 \/ json_end = 0 THEN ParseOk(<<>>)
            ELSE LET loaded == JsonLoads(Slice(content.toks, json_start, json_end))
                 IN IF ~loaded.ok THEN ParseOk(<<>>)
                    ELSE ParsePlans(loaded.data.daily_plans, start_date, <<>>)

\* ------------------------------------------------------------ generate_plan
MaxTripDays == 30
Destinations == {"Osaka", "Jeju", "Paris"}
StartDates == {738000, 738045}
StyleLists == {<<>>, <<"food">>}
TwoStyles == <<"food", "sightseeing">>

PlanInputs ==
    { [destination |-> d, start_date |-> sd, end_date |-> sd + (n - 1), travelers |-> 2,
       budget |-> 500000, styles |-> st] :
        d \in Destinations, sd \in StartDates, n \in 1..MaxTripDays, st \in StyleLists }

\* Replies the model is tried on: schedule items, plans, and whole reply texts.
ItemOk1 == SchedData(1, T("1", "0", "0", "0"), "Dotonbori", "food", 90, 346687, {})
ItemOk2 == SchedData(2, T("1", "3", "0", "0"), "Osaka Castle", "sightseeing", 120, 346873, {})
ItemRange ==
    SchedData(1, <<"0", "9", ":", "0", "0", "-", "1", "0", ":", "4", "0">>, "Kuromon",
              "food", 100, 346668, {})
ItemHour25 == SchedData(1, T("2", "5", "0", "0"), "Night Market", "food", 60, 346668, {})
ItemNoPlace == SchedData(2, T("1", "1", "0", "0"), "", "food", 60, 346668, {"place"})
ItemBadCategory == SchedData(2, T("1", "1", "0", "0"), "Museum", "museum", 60, 346668, {})
ItemTooLong == SchedData(3, T("1", "2", "0", "0"), "Hike", "activity", 600, 346668, {})
ItemBadLat == SchedData(3, T("1", "2", "0", "0"), "Nowhere", "rest", 60, 950000, {})

Day(d) == PlanData(TRUE, d, "absent", 0, "theme", <<ItemOk1, ItemOk2>>)
DayDated(d, date) == PlanData(TRUE, d, "valid", date, "theme", <<ItemOk1, ItemOk2>>)
PlanAllBad == PlanData(TRUE, 1, "absent", 0, "theme", <<ItemBadCategory, ItemNoPlace>>)
PlanMixed ==
    PlanData(TRUE, 1, "absent", 0, "theme", <<ItemOk1, ItemBadCategory, ItemTooLong, ItemOk2>>)
PlanOneOfEach ==
    PlanData(TRUE, 1, "absent", 0, "theme",
             <<ItemNoPlace, ItemOk1, ItemBadCategory, ItemTooLong, ItemBadLat, ItemOk2>>)
PlanNoDay == PlanData(FALSE, 0, "absent", 0, "theme", <<ItemOk1>>)
PlanBadDate == PlanData(TRUE, 2, "invalid", 0, "theme", <<ItemOk1>>)
PlanDayZero == PlanData(TRUE, 0, "absent", 0, "theme", <<ItemOk1>>)
PlanEmpty == PlanData(TRUE, 1, "absent", 0, "theme", <<>>)
PlanRange == PlanData(TRUE, 1, "absent", 0, "theme", <<ItemRange, ItemOk2>>)
PlanHour25 == PlanData(TRUE, 1, "absent", 0, "theme", <<ItemHour25, ItemBadLat>>)

ReplyPlanLists ==
    { <<>>, <<Day(1)>>, <<Day(1), Day(2)>>, <<Day(1), Day(2), Day(3)>>, <<Day(2), Day(1)>>,
      <<Day(1), Day(1)>>, <<PlanAllBad>>, <<PlanEmpty, PlanAllBad>>, <<PlanMixed>>,
      <<Day(1), PlanNoDay>>, <<Day(1), PlanBadDate>>, <<PlanDayZero>>, <<PlanEmpty>>,
      <<PlanRange>>, <<PlanHour25>>, <<DayDated(1, 738000)>>, <<PlanOneOfEach, Day(2)>>,
      <<Day(1), PlanAllBad, Day(3)>> }

Obj(plan_list) == <<LB, Members([has_daily_plans |-> TRUE, daily_plans |-> plan_list]), RB>>

ReplyContents ==
    { NullContent, Text(<<>>), Text(<<PROSE>>), Text(<<LB, PROSE, RB>>),
      Text(<<RB, PROSE, LB>>), Text(<<LB, RB>>), Text(<<LB, Members(NoData), RB>>),
      Text(<<PROSE>> \o Obj(<<Day(1), Day(2)>>) \o <<PROSE>>),
      Text(<<PROSE, FENCE>> \o Obj(<<Day(1)>>) \o <<FENCE>>),
      Text(<<PROSE, LB, PROSE, RB, FENCE>> \o Obj(<<Day(1)>>) \o <<FENCE>>) }
    \cup { Text(Obj(pl)) : pl \in ReplyPlanLists }

\* What the execute_with_tools call of line 335 can give: an exception, or a dict
\* whose content is whatever the last completion carried.
LlmRaise == [kind |-> "raise", content |-> NullContent]
LlmReturn(content) == [kind |-> "return", content |-> content]
NotCalled == [kind |-> "not_called", content |-> NullContent]
ExecuteWithToolsOutcomes == {LlmRaise} \cup {LlmReturn(c) : c \in ReplyContents}

\* _get_exchange_rate (lines 157-175): the currency of the destination.
to_currency(destination) ==
    IF destination = "Paris" THEN "EUR" ELSE "JPY"

\* style_queries (lines 186-193), the queries by their position.
style_queries(style) == <<1, 2, 3>>

RECURSIVE collect_places(_, _)
collect_places_stops_at_failure(styles, failed) ==
    IF styles = <<>> THEN <<>>
    ELSE IF \E q \in 1..Len(style_queries(styles[1])) :
                <<styles[1], style_queries(styles[1])[q]>> \in failed
         THEN <<>>
         ELSE <<[style |-> styles[1], places |-> style_queries(styles[1])]>>
              \o collect_places(Tail(styles), failed)

\* _collect_places (lines 195-212): per style, the queries whose search returned.
collect_places(styles, failed) ==
    IF styles = <<>> THEN <<>>
    ELSE <<[style |-> styles[1],
            places |-> SelectSeq(style_queries(styles[1]),
                                 LAMBDA q : <<styles[1], q>> \notin failed)]>>
         \o collect_places(Tail(styles), failed)

\* The search_places calls of lines 195-210 in the order the code makes them: a
\* call is awaited, and returns or raises, before the next one is made.
SearchEvent(ev, style, query) == [ev |-> ev, style |-> style, query |-> query]
StyleEvents(style, failed) ==
    LET queries == style_queries(style)
    IN [k \in 1..(2 * Len(queries)) |->
            LET query == queries[(k + 1) \div 2]
            IN SearchEvent(IF k % 2 = 1 THEN "start"
                           ELSE IF <<style, query>> \in failed THEN "raise" ELSE "return",
                           style, query)]

RECURSIVE search_events(_, _)
search_events(styles, failed) ==
    IF styles = <<>> THEN <<>>
    ELSE StyleEvents(styles[1], failed) \o search_events(Tail(styles), failed)

\* The searches that raise: none, one query of a style, every query of a style.
SearchFailures ==
    { {}, {<<"food", 2>>}, {<<"food", 1>>, <<"food", 2>>, <<"food", 3>>} }

\* Lines 333-359 of _generate_daily_plans: the LLM plans if there are any, else
\* the fallback; every exception of the LLM branch is caught (line 352).
StageReturn(source, plans) == [kind |-> "return", source |-> source, plans |-> plans]
StageRaise == [kind |-> "raise", source |-> "none", plans |-> <<>>]

generate_daily_plans_uncaught(available, outcome, in, places) ==
    LET mock == StageReturn("mock",
                    generate_mock_plans(in.destination, in.start_date, in.end_date,
                                        in.budget, in.styles, places))
    IN IF ~available THEN mock
       ELSE IF outcome.kind = "raise" THEN StageRaise
       ELSE LET parsed == parse_daily_plans(outcome.content, in.start_date)
            IN IF parsed.kind = "raise" THEN StageRaise
               ELSE IF parsed.plans # <<>> THEN StageReturn("llm", parsed.plans)
               ELSE mock

generate_daily_plans(available, outcome, in, places) ==
    LET mock == StageReturn("mock",
                    generate_mock_plans(in.destination, in.start_date, in.end_date,
                                        in.budget, in.styles, places))
    IN IF ~available THEN mock
       ELSE IF outcome.kind = "raise" THEN mock
       ELSE LET parsed == parse_daily_plans(outcome.content, in.start_date)
            IN IF parsed.kind = "raise" THEN mock
               ELSE IF parsed.plans # <<>> THEN StageReturn("llm", parsed.plans)
               ELSE mock

\* Trip(...) of lines 135-148 and the validators of models/travel.py.
TripValid(in) ==
    /\ in.destination # ""
    /\ in.end_date >= in.start_date
    /\ in.travelers >= 1 /\ in.travelers <= 50
    /\ in.budget * in.travelers >= 0

Trip(in, plans) ==
    [destination |-> in.destination,
     period |-> [start |-> in.start_date, end |-> in.end_date],
     travelers |-> in.travelers,
     total_budget |-> [estimated |-> in.budget * in.travelers, currency |-> "KRW"],
     styles |-> in.styles, daily_plans |-> plans, status |-> "upcoming"]

\* generate_plan is called (line 84).
GeneratePlanOn(inputs) ==
    /\ plan_pc = "idle" /\ pc = "idle" /\ cc_pc = "idle"
    /\ \E in \in inputs : plan_in' = in
    /\ plan_pc' = "exchange"
    /\ UNCHANGED <<aux_vars, llm, exchange_info, places_info, search_log, daily_plans,
                   plan_source, trip, chat_vars, exec_vars>>

GeneratePlan == GeneratePlanOn(PlanInputs)

\* Line 115; get_exchange_rate answers from the provider or from its fallback table.
GetExchangeRate ==
    /\ plan_pc = "exchange"
    /\ \E fallback \in BOOLEAN :
        exchange_info' = [to_currency |-> to_currency(plan_in.destination),
                          is_fallback |-> fallback]
    /\ plan_pc' = "places"
    /\ UNCHANGED <<aux_vars, plan_in, llm, places_info, search_log, daily_plans, plan_source,
                   trip, chat_vars, exec_vars>>

\* Line 118.
CollectPlaces ==
    /\ plan_pc = "places"
    /\ \E failed \in SearchFailures :
        /\ places_info' = collect_places(plan_in.styles, failed)
        /\ search_log' = search_events(plan_in.styles, failed)
    /\ plan_pc' = "plans"
    /\ UNCHANGED <<aux_vars, plan_in, llm, exchange_info, daily_plans, plan_source, trip,
                   chat_vars, exec_vars>>

\* Lines 121-132 and 345-359: what _generate_daily_plans does with the outcome
\* of its execute_with_tools call.
GenerateDailyPlansStage(outcome) ==
    LET stage == generate_daily_plans(client_configured, outcome, plan_in, places_info)
    IN /\ llm' = outcome
       /\ daily_plans' = stage.plans
       /\ plan_source' = stage.source
       /\ plan_pc' = IF stage.kind = "raise" THEN "raised" ELSE "build"
       /\ UNCHANGED <<aux_vars, plan_in, exchange_info, places_info, search_log, trip,
                      chat_vars, exec_vars>>

\* _generate_daily_plans with its execute_with_tools call taken as a whole.
GenerateDailyPlans ==
    /\ plan_pc = "plans"
    /\ \E outcome \in (IF client_configured THEN ExecuteWithToolsOutcomes ELSE {NotCalled}) :
        GenerateDailyPlansStage(outcome)

\* Lines 333-343: with a backend, execute_with_tools is called with the system
\* and user prompts, the planner's tools and max_iterations=3.
GenerateDailyPlansCall ==
    /\ plan_pc = "plans"
    /\ client_configured
    /\ plan_pc' = "calling"
    /\ messages' = InitialMessages
    /\ UNCHANGED <<aux_vars, plan_in, llm, exchange_info, places_info, search_log, daily_plans,
                   plan_source, trip, chat_vars, pc, max_iterations, current_messages,
                   tools_used, iteration, response, tc_idx, requests, handler_log, exec_log,
                   result>>

\* The reply texts a returned content stands for.
PlannerReplies == {Text(<<PROSE>>), Text(Obj(<<Day(1)>>))}
ReplyTexts(content) ==
    IF content = NULL THEN {NullContent}
    ELSE IF content = "" THEN {Text(<<>>)}
    ELSE PlannerReplies

\* Lines 345-359, when execute_with_tools has returned or raised.
GenerateDailyPlansResume ==
    /\ plan_pc = "calling"
    /\ pc \in {"returned", "raised"}
    /\ \E outcome \in (IF pc = "raised" THEN {LlmRaise}
                       ELSE {LlmReturn(c) : c \in ReplyTexts(result.content)}) :
        GenerateDailyPlansStage(outcome)

\* Lines 135-155.
BuildTrip ==
    /\ plan_pc = "build"
    /\ IF TripValid(plan_in)
       THEN trip' = Trip(plan_in, daily_plans) /\ plan_pc' = "returned"
       ELSE trip' = trip /\ plan_pc' = "raised"
    /\ UNCHANGED <<aux_vars, plan_in, llm, exchange_info, places_info, search_log, daily_plans,
                   plan_source, chat_vars, exec_vars>>

\* --------------------------------------------------------------- PlacesTool
\* tools/places_tool.py.  Destinations, categories and queries are romanised; a
\* mock place is named by its destination, category and position in the table.
\* real_places_db (lines 228-509): the categories of each destination, in the
\* table's order; every category lists 5 places.
real_places_db_keys == <<"Osaka", "Tokyo", "Kyoto", "Jeju", "Busan", "Bangkok", "Paris">>
EntriesPerCategory == 5
real_places_db(loc_key) ==
    CASE loc_key = "Osaka" ->
            <<"food", "restaurant", "local food", "sights", "attraction", "landmark",
              "photo spot", "viewpoint", "instagram", "shopping", "market",
              "department store", "hot spring", "spa", "park", "activity", "experience",
              "tour">>
      [] loc_key = "Tokyo" -> <<"food", "sights", "photo spot", "shopping">>
      [] loc_key = "Jeju" -> <<"food", "sights", "photo spot", "activity">>
      [] OTHER -> <<"food", "sights", "photo spot">>

MockEntry(loc_key, cat, i) == loc_key \o "/" \o cat \o "/" \o ToString(i)
CategoryPlaces(loc_key, cat) ==
    IF \E j \in 1..Len(real_places_db(loc_key)) : real_places_db(loc_key)[j] = cat
    THEN [i \in 1..EntriesPerCategory |-> MockEntry(loc_key, cat, i)]
    ELSE <<>>

\* The queries and locations search_places is tried on, with what the substring
\* tests of lines 526-536 and 548 give for them.
Queries == {"best food", "park", "museum", "", "cuisine"}
Locations == {"Osaka Namba", "Tokyo", "London"}

\* Lines 512-529: the category of the first keyword list the query has a word of.
query_normalized(query) ==
    CASE query = "best food" -> "food"
      [] query = "park" -> "park"
      [] OTHER -> query

\* Lines 532-540: the first table key contained in the location, else Osaka.
LocationKeysIn(location) ==
    CASE location = "Osaka Namba" -> {"Osaka"}
      [] location = "Tokyo" -> {"Tokyo"}
      [] OTHER -> {}

location_data_key_none(location) ==
    LET hits == {j \in 1..Len(real_places_db_keys) :
                    real_places_db_keys[j] \in LocationKeysIn(location)}
    IN IF hits = {} THEN "none"
       ELSE real_places_db_keys[CHOOSE j \in hits : \A k \in hits : j <= k]

location_data_key(location) ==
    LET hits == {j \in 1..Len(real_places_db_keys) :
                    real_places_db_keys[j] \in LocationKeysIn(location)}
    IN IF hits = {} THEN "Osaka"
       ELSE real_places_db_keys[CHOOSE j \in hits : \A k \in hits : j <= k]

\* Line 548: normalized in cat or cat in normalized, for a normalized query that
\* names no category of the destination.
SimilarCategory(normalized, cat) ==
    \/ normalized = ""
    \/ normalized = "cuisine" /\ cat = "local food"

Take(seq, n) == IF n <= 0 THEN <<>> ELSE IF n >= Len(seq) THEN seq ELSE SubSeq(seq, 1, n)
MinOf(a, b) == IF a <= b THEN a ELSE b

\* _get_mock_places (lines 220-574).
get_mock_places(query, location, max_results) ==
    LET loc_key == location_data_key(location)
        cats == IF loc_key = "none" THEN <<>> ELSE real_places_db(loc_key)
        normalized == query_normalized(query)
        direct == IF loc_key = "none" THEN <<>> ELSE CategoryPlaces(loc_key, normalized)
        similar == {j \in 1..Len(cats) : SimilarCategory(normalized, cats[j])}
        by_similar == IF direct # <<>> \/ similar = {} THEN direct
                      ELSE CategoryPlaces(loc_key,
                                          cats[CHOOSE j \in similar : \A k \in similar : j <= k])
        places == IF by_similar # <<>> \/ loc_key = "none" THEN by_similar
                  ELSE IF CategoryPlaces(loc_key, "food") # <<>>
                       THEN CategoryPlaces(loc_key, "food")
                       ELSE CategoryPlaces(loc_key, "sights")
        shown == Take(places, max_results)
    IN [i \in 1..Len(shown) |->
            [name |-> shown[i], mock |-> TRUE, user_ratings_total |-> 300 + (i - 1) * 50,
             price_level |-> MinOf(i, 4)]]

\* What the geocode request (lines 35-45) and the text search request (lines
\* 105-127) can do.  A provider place is well formed or lacks its geometry.
NoCoords == <<>>
Coordinates == {<<1, 1>>, <<2, 2>>}
GeocodeOutcomes ==
    { [kind |-> k, coords |-> NoCoords] : k \in {"exception", "not_ok"} }
    \cup { [kind |-> "ok", coords |-> c] : c \in Coordinates }
SearchOutcomes ==
    { [kind |-> k, results |-> <<>>] : k \in {"exception", "not_ok"} }
    \cup { [kind |-> "ok", results |-> r] :
            r \in SeqsUpTo({"place", "no_geometry"}, MaxProviderResults) }

ProviderPlaces(results) ==
    [i \in 1..Len(results) |->
        [name |-> "provider place " \o ToString(i), mock |-> FALSE,
         user_ratings_total |-> 0, price_level |-> 0]]

SearchArgs(query, location, max_results) ==
    [query |-> query, location |-> location, max_results |-> max_results]
SearchInputs ==
    { SearchArgs("best food", "Osaka Namba", 1), SearchArgs("park", "Tokyo", MaxResults),
      SearchArgs("museum", "London", MaxResults), SearchArgs("", "London", 1),
      SearchArgs("cuisine", "Osaka Namba", MaxResults), SearchArgs("cuisine", "Tokyo", 1),
      SearchArgs("best food", "London", 0), SearchArgs("park", "Osaka Namba", MaxResults) }

SearchLog(path, geocode_requested, search_requested) ==
    [path |-> path, geocode_requested |-> geocode_requested,
     search_requested |-> search_requested]
NoSearch == SearchLog("none", FALSE, FALSE)

\* search_places (lines 53-134), a whole call with its _geocode call (lines 28-47).
search_places ==
    \E args \in SearchInputs :
      \E geo \in (IF places_configured /\ geocode_cache[args.location] = NoCoords
                  THEN GeocodeOutcomes ELSE {[kind |-> "none", coords |-> NoCoords]}) :
       \E found \in (IF places_configured /\ (geocode_cache[args.location] # NoCoords
                                               \/ geo.kind = "ok")
                     THEN SearchOutcomes ELSE {[kind |-> "none", results |-> <<>>]}) :
        LET mock == get_mock_places(args.query, args.location, args.max_results)
            cached == geocode_cache[args.location] # NoCoords
            coords == IF cached THEN geocode_cache[args.location] ELSE geo.coords
            shown == Take(found.results, args.max_results)
        IN /\ sp_args' = args
           /\ IF ~places_configured
              THEN /\ sp_result' = mock
                   /\ sp_log' = SearchLog("unconfigured", FALSE, FALSE)
                   /\ geocode_cache' = geocode_cache
              ELSE IF ~cached /\ geo.kind # "ok"
              THEN /\ sp_result' = mock
                   /\ sp_log' = SearchLog("geocode_" \o geo.kind, TRUE, FALSE)
                   /\ geocode_cache' = geocode_cache
              ELSE /\ geocode_cache' = [geocode_cache EXCEPT ![args.location] = coords]
                   /\ IF found.kind # "ok"
                      THEN /\ sp_result' = mock
                           /\ sp_log' = SearchLog("search_" \o found.kind, ~cached, TRUE)
                      ELSE IF \E i \in 1..Len(shown) : shown[i] = "no_geometry"
                      THEN /\ sp_result' = mock
                           /\ sp_log' = SearchLog("malformed", ~cached, TRUE)
                      ELSE /\ sp_result' = ProviderPlaces(shown)
                           /\ sp_log' = SearchLog("provider", ~cached, TRUE)
    /\ UNCHANGED <<ext_vars, places_configured, exchange_vars, consult_vars, stream_vars, chat_vars,
                   exec_vars, plan_vars>>

\* _geocode (lines 28-47) as concurrent search_places calls run it: a call runs
\* from its start to its await (line 35) and from the response to its return
\* without interruption, and calls interleave at the await.
GeocodeCallers == 1..MaxGeocodeCallers
GeocodeLocations == {"Tokyo", "London"}
GeocodeCallState(p, location, coords, requested) ==
    [pc |-> p, location |-> location, coords |-> coords, requested |-> requested]
NoGeocodeCall == GeocodeCallState("idle", "", NoCoords, FALSE)

GeocodeCachedAnyKey(cache, location) ==
    IF \E l \in GeocodeLocations : l # location /\ cache[l] # NoCoords
    THEN cache[CHOOSE l \in GeocodeLocations : l # location /\ cache[l] # NoCoords]
    ELSE cache[location]

\* Line 31: self._geocode_cache[location].
GeocodeCached(cache, location) == cache[location]

GeocodeStoredAlways(cache, location, geo) == [cache EXCEPT ![location] = geo.coords]

\* Lines 41-46: the cache after the response; only an OK answer with results is
\* stored.
GeocodeStored(cache, location, geo) ==
    IF geo.kind = "ok" THEN [cache EXCEPT ![location] = geo.coords] ELSE cache

\* Lines 30-38: the cache test; a hit returns the entry, a miss sends the request.
geocode ==
    \E c \in GeocodeCallers, location \in GeocodeLocations :
        /\ places_configured
        /\ geo_calls[c].pc # "awaiting"
        /\ geo_calls' = [geo_calls EXCEPT ![c] =
                IF geocode_cache[location] # NoCoords
                THEN GeocodeCallState("returned", location,
                                      GeocodeCached(geocode_cache, location), FALSE)
                ELSE GeocodeCallState("awaiting", location, NoCoords, TRUE)]
        /\ UNCHANGED <<geo_log, store_vars, translate_vars, places_vars, exchange_vars,
                       consult_vars, stream_vars, chat_vars, exec_vars, plan_vars>>

\* Lines 39-47: the response has arrived, or client.get has raised.
geocode_resume ==
    \E c \in GeocodeCallers, geo \in GeocodeOutcomes :
        LET location == geo_calls[c].location
        IN /\ geo_calls[c].pc = "awaiting"
           /\ geocode_cache' = GeocodeStored(geocode_cache, location, geo)
           /\ geo_calls' = [geo_calls EXCEPT ![c] =
                    GeocodeCallState(IF geo.kind = "exception" THEN "raised" ELSE "returned",
                                     location, geo.coords, TRUE)]
           /\ geo_log' = IF geo.kind = "ok" THEN geo_log \cup {<<location, geo.coords>>}
                         ELSE geo_log
           /\ UNCHANGED <<places_configured, sp_args, sp_result, sp_log, store_vars,
                          translate_vars, exchange_vars, consult_vars, stream_vars, chat_vars,
                          exec_vars, plan_vars>>

GeocodeIdle ==
    /\ geo_calls = [c \in GeocodeCallers |-> NoGeocodeCall]
    /\ geo_log = {}

PlacesIdle ==
    /\ geocode_cache = [l \in Locations |-> NoCoords]
    /\ sp_args = <<>>
    /\ sp_result = <<>>
    /\ sp_log = NoSearch

\* ------------------------------------------------------------- ExchangeTool
\* tools/exchange_tool.py.  Rates are the Python floats times 10^5; inverse_rate is
\* 1 / rate times 10^2, truncated.
Upper(currency) ==
    CASE currency = "krw" -> "KRW"
      [] currency = "jpy" -> "JPY"
      [] OTHER -> currency

CacheKey(from_cur, to_cur) == <<from_cur, to_cur>>
CacheKeys == {CacheKey(f, t) : f \in {"KRW"}, t \in {"JPY", "USD", "XXX"}}
NoEntry == [from_currency |-> "", to_currency |-> "", rate |-> 0, inverse_rate |-> 0,
            has_is_fallback |-> FALSE, is_fallback |-> FALSE]

InverseRate(rate) == IF rate > 0 THEN 10000000 \div rate ELSE 0

\* The dict of lines 70-80.
ProviderResult(from_cur, to_cur, rate) ==
    [from_currency |-> from_cur, to_currency |-> to_cur, rate |-> rate,
     inverse_rate |-> InverseRate(rate), has_is_fallback |-> FALSE, is_fallback |-> FALSE]

\* fallback_rates (lines 102-110) with its default of 1.0.
fallback_rates(from_cur, to_cur) ==
    CASE from_cur = "KRW" /\ to_cur = "JPY" -> 11000
      [] from_cur = "KRW" /\ to_cur = "USD" -> 75
      [] from_cur = "KRW" /\ to_cur = "EUR" -> 69
      [] from_cur = "KRW" /\ to_cur = "THB" -> 2700
      [] from_cur = "KRW" /\ to_cur = "CNY" -> 540
      [] from_cur = "JPY" /\ to_cur = "KRW" -> 910000
      [] from_cur = "USD" /\ to_cur = "KRW" -> 133000000
      [] OTHER -> 100000

FallbackResultUntagged(from_cur, to_cur) ==
    LET rate == fallback_rates(from_cur, to_cur)
    IN [from_currency |-> from_cur, to_currency |-> to_cur, rate |-> rate,
        inverse_rate |-> InverseRate(rate), has_is_fallback |-> FALSE, is_fallback |-> FALSE]

\* _get_fallback_rate (lines 92-128).
get_fallback_rate(from_cur, to_cur) ==
    LET rate == fallback_rates(from_cur, to_cur)
    IN [from_currency |-> from_cur, to_currency |-> to_cur, rate |-> rate,
        inverse_rate |-> InverseRate(rate), has_is_fallback |-> TRUE, is_fallback |-> TRUE]

\* What the request of line 53 can do: raise (transport, timeout, a body that is not
\* JSON), answer with another status than 200, answer without the target currency,
\* answer with a rate that is not a number, or answer with a rate.
ExchangeProviderRates == {0, 11000, 12000}
ExchangeProviderOutcomes ==
    { [kind |-> k, rate |-> 0] : k \in {"exception", "status", "no_currency", "not_a_number"} }
    \cup { [kind |-> "rate", rate |-> r] : r \in ExchangeProviderRates }

ExchangeLog(key, source, requested, outcome) ==
    [key |-> key, source |-> source, requested |-> requested, outcome |-> outcome]
NoExchangeCall == ExchangeLog(<<>>, "none", FALSE, [kind |-> "none", rate |-> 0])

ExchangeCachedNever(cache, cache_key) == FALSE

\* The cache test of line 46.
ExchangeCached(cache, cache_key) == cache[cache_key] # NoEntry

\* get_exchange_rate(from_cur, to_cur) (lines 25-90), a whole call.
get_exchange_rate ==
    \E from_arg \in {"KRW", "krw"}, to_arg \in {"JPY", "jpy", "USD", "XXX"} :
        LET from_cur == Upper(from_arg)
            to_cur == Upper(to_arg)
            cache_key == CacheKey(from_cur, to_cur)
        IN /\ ex_args' = [from_currency |-> from_arg, to_currency |-> to_arg]
           /\ IF ExchangeCached(ex_cache, cache_key)
              THEN /\ ex_result' = ex_cache[cache_key]
                   /\ ex_cache' = ex_cache
                   /\ ex_log' = ExchangeLog(cache_key, "cache", FALSE, NoExchangeCall.outcome)
              ELSE \E outcome \in ExchangeProviderOutcomes :
                   IF outcome.kind = "rate"
                   THEN LET built == ProviderResult(from_cur, to_cur, outcome.rate)
                        IN /\ ex_cache' = [ex_cache EXCEPT ![cache_key] = built]
                           /\ ex_result' = built
                           /\ ex_log' = ExchangeLog(cache_key, "provider", TRUE, outcome)
                   ELSE /\ ex_cache' = ex_cache
                        /\ ex_result' = get_fallback_rate(from_cur, to_cur)
                        /\ ex_log' = ExchangeLog(cache_key, "fallback", TRUE, outcome)
    /\ UNCHANGED <<ext_vars, consult_vars, stream_vars, places_vars, chat_vars, exec_vars, plan_vars>>

\* ---------------------------------------------------- TravelConsultantAgent
\* agents/travel_consultant_agent.py.  A user message is one of a few texts; the
\* keyword lists of _generate_fallback_response it has a word of are tabulated.
ChatMessages == {"hello", "where to eat", "how much is the yen", "how do I say thanks",
                 "money for food", "say the rate"}
FoodWords(message) == message \in {"where to eat", "money for food"}
CurrencyWords(message) == message \in {"how much is the yen", "money for food", "say the rate"}
TranslationWords(message) == message \in {"how do I say thanks", "say the rate"}

generate_fallback_response_currency_first(message) ==
    IF CurrencyWords(message) THEN "currency tips"
    ELSE IF FoodWords(message) THEN "food tips"
    ELSE IF TranslationWords(message) THEN "phrase list"
    ELSE "generic greeting"

\* _generate_fallback_response (lines 266-317).
generate_fallback_response(message) ==
    IF FoodWords(message) THEN "food tips"
    ELSE IF CurrencyWords(message) THEN "currency tips"
    ELSE IF TranslationWords(message) THEN "phrase list"
    ELSE "generic greeting"

\* The history turns of a conversation, numbered from the oldest.
HistoryTurn(i) == Msg(IF i % 2 = 1 THEN "user" ELSE "assistant", ToString(i))
History(n) == [i \in 1..n |-> HistoryTurn(i)]

\* history[-10:]
LastTen(history) ==
    IF Len(history) <= 10 THEN history
    ELSE SubSeq(history, Len(history) - 9, Len(history))

\* Lines 80-93 and 149-159: the message list sent to the backend.
BuildMessages(message, history) ==
    <<Msg("system", "prompt")>> \o LastTen(history) \o <<Msg("user", message)>>

ChatInput(message, n) == [message |-> message, history |-> History(n)]
ChatInputs ==
    { ChatInput("hello", 0), ChatInput("where to eat", 1), ChatInput("how much is the yen", 0),
      ChatInput("how do I say thanks", 0), ChatInput("money for food", 11),
      ChatInput("say the rate", 0) }

ConsultDict(text, used) == [response |-> text, tools_used |-> used]
NoConsultDict == ConsultDict(NULL, <<>>)

\* chat (lines 51-103): the message list is built; without a backend the canned
\* response is returned at once (lines 121-124).
ConsultantChat ==
    /\ consult_pc = "idle" /\ pc = "idle" /\ plan_pc = "idle" /\ cc_pc = "idle"
    /\ \E in \in ChatInputs :
        /\ consult_in' = in
        /\ messages' = BuildMessages(in.message, in.history)
        /\ IF client_configured
           THEN consult_pc' = "calling" /\ consult_result' = consult_result
           ELSE /\ consult_pc' = "returned"
                /\ consult_result' = ConsultDict(generate_fallback_response(in.message), <<>>)
    /\ UNCHANGED <<ext_vars, exchange_vars, stream_vars, places_vars, chat_vars, plan_vars, pc, max_iterations, current_messages,
                   tools_used, iteration, response, tc_idx, requests, handler_log, exec_log,
                   result>>

\* Lines 105-124: what chat does when execute_with_tools has returned or raised.
ConsultantChatResume ==
    /\ consult_pc = "calling"
    /\ pc \in {"returned", "raised"}
    /\ consult_pc' = "returned"
    /\ consult_result' =
            IF pc = "returned" THEN ConsultDict(result.content, result.tools_used)
            ELSE ConsultDict(generate_fallback_response(consult_in.message), <<>>)
    /\ UNCHANGED <<ext_vars, exchange_vars, stream_vars, places_vars, consult_in, chat_vars, exec_vars, plan_vars>>

ConsultIdle ==
    /\ consult_pc = "idle"
    /\ consult_in = <<>>
    /\ consult_result = NoConsultDict

\* -------------------------------------------------------------- chat_stream
\* The characters of a canned response.
Chars(text) == [i \in 1..CannedLen |-> text \o "#" \o ToString(i)]

\* chat_completion_stream's parameters (openai_service.py lines 124-128) and the
\* keyword arguments chat_stream calls it with (lines 163-166): a keyword the
\* function does not have makes the call raise TypeError.
chat_completion_stream_params == {"messages"}
ChatStreamKwargs == {"messages", "temperature"}
BindsAnyCall(kwargs, params) == TRUE

BindsCall(kwargs, params) == kwargs \subseteq params

\* What the backend's stream gives when asked for its next item with text.
BackendChunks == {"c", "[DONE]"}
StreamLog(requested, sent, chunks, failed) ==
    [requested |-> requested, messages |-> sent, chunks |-> chunks, failed |-> failed]
NoStream == StreamLog(FALSE, <<>>, <<>>, FALSE)

\* generate()'s frames (routes/agent.py lines 156-162).
DataFrameUnmarked(chunk) == "data: [DONE]"

DataFrame(chunk) == "data: " \o chunk
DoneFrame == "data: [DONE]"
ErrorFrame == "data: [ERROR] error"

\* chat_stream run up to its next yield, its end or its exception.  `backend` is
\* what the backend stream does if it is asked: "end", "error" or a chunk.
\* The result: the new position, the item yielded (NULL if none), the stream log.
ChatStreamStep(p, configured, in, log, backend) ==
    LET canned == Chars(generate_fallback_response(in.message))
        first == [pc |-> "fallback", yield |-> canned[1], log |-> log]
        backend_step(lg) ==
            IF backend = "end" THEN [pc |-> "done", yield |-> NULL, log |-> lg]
            ELSE IF backend = "error"
                 THEN [pc |-> "fallback", yield |-> canned[1],
                       log |-> StreamLog(TRUE, lg.messages, lg.chunks, TRUE)]
            ELSE [pc |-> "streaming", yield |-> backend,
                  log |-> StreamLog(TRUE, lg.messages, Append(lg.chunks, backend), FALSE)]
    IN CASE p = "created" ->
                IF ~configured THEN first
                ELSE IF ~BindsCall(ChatStreamKwargs, chat_completion_stream_params) THEN first
                ELSE backend_step(StreamLog(TRUE, BuildMessages(in.message, in.history), <<>>,
                                                FALSE))
         [] p = "streaming" -> backend_step(log)
         [] p = "fallback" -> [pc |-> "done", yield |-> NULL, log |-> log]
         [] OTHER -> [pc |-> p, yield |-> NULL, log |-> log]

\* In fallback mode the next character, if one is left.
FallbackNext(in, out, from) ==
    LET canned == Chars(generate_fallback_response(in.message))
        sent == Len(out) - from
    IN IF sent < Len(canned) THEN canned[sent + 1] ELSE NULL

BackendChoices(log) ==
    {"end", "error"} \cup (IF Len(log.chunks) < MaxChunks THEN BackendChunks ELSE {})

\* The endpoint is called (routes/agent.py lines 137-171): generate() is created
\* and started; chat_stream is created with the request's message and history.
ConsultantStreamRequest ==
    /\ sse_pc = "idle" /\ stream_pc = "idle"
    /\ pc = "idle" /\ plan_pc = "idle" /\ cc_pc = "idle" /\ consult_pc = "idle"
    /\ \E in \in ChatInputs : stream_in' = in
    /\ stream_pc' = "created"
    /\ sse_pc' = "running"
    /\ UNCHANGED <<ext_vars, stream_out, stream_log, frames, places_vars, exchange_vars, consult_vars, chat_vars,
                   exec_vars, plan_vars>>

\* One pass of generate()'s async for: chat_stream runs to its next yield and the
\* chunk is framed (line 156); when chat_stream ends the [DONE] frame is yielded
\* (line 158); when it raises, the [ERROR] frame (line 162).
ChatStreamAdvance ==
    /\ sse_pc = "running"
    /\ stream_pc \in {"created", "streaming", "fallback"}
    /\ \E backend \in BackendChoices(stream_log) :
        LET from == IF stream_log.failed THEN Len(stream_log.chunks) ELSE 0
            more == IF stream_pc = "fallback"
                    THEN FallbackNext(stream_in, stream_out, from) ELSE NULL
            step == IF more # NULL
                    THEN [pc |-> "fallback", yield |-> more, log |-> stream_log]
                    ELSE ChatStreamStep(stream_pc, client_configured, stream_in,
                                        stream_log, backend)
        IN /\ stream_pc' = step.pc
           /\ stream_log' = step.log
           /\ stream_out' = IF step.yield # NULL THEN Append(stream_out, step.yield)
                            ELSE stream_out
           /\ frames' = CASE step.yield # NULL -> Append(frames, DataFrame(step.yield))
                           [] step.pc = "done" -> Append(frames, DoneFrame)
                           [] OTHER -> Append(frames, ErrorFrame)
           /\ sse_pc' = IF step.yield # NULL THEN "running" ELSE "terminal"
    /\ UNCHANGED <<ext_vars, stream_in, places_vars, exchange_vars, consult_vars, chat_vars, exec_vars, plan_vars>>

\* generate() is resumed after its terminal frame and ends.
SseClose ==
    /\ sse_pc = "terminal"
    /\ sse_pc' = "closed"
    /\ UNCHANGED <<ext_vars, stream_pc, stream_in, stream_out, stream_log, frames, places_vars, exchange_vars,
                   consult_vars, chat_vars, exec_vars, plan_vars>>

StreamIdle ==
    /\ stream_pc = "idle"
    /\ stream_in = <<>>
    /\ stream_out = <<>>
    /\ stream_log = NoStream
    /\ sse_pc = "idle"
    /\ frames = <<>>

ExchangeIdle ==
    /\ ex_cache = [k \in CacheKeys |-> NoEntry]
    /\ ex_args = <<>>
    /\ ex_result = NoEntry
    /\ ex_log = NoExchangeCall

\* ----------------------------------------------------------- routes/travel.py
\* The in-memory trip store and its handlers.  A stored trip is kept by its
\* status and its destination; the other fields are replaced with them.
TripIds == {"trip_1", "trip_2"}
TripStatus == <<"upcoming", "ongoing", "completed">>
TripStatuses == {TripStatus[i] : i \in 1..Len(TripStatus)}
NoTrip == [status |-> "none", destination |-> ""]
StoredTrip(trip_status, destination) == [status |-> trip_status, destination |-> destination]
TripBodies == {StoredTrip(st, d) : st \in TripStatuses, d \in {"Osaka", "Jeju"}}
HTTP_200 == 200
HTTP_201 == 201
HTTP_204 == 204
HTTP_404 == 404
StoreLog(op, trip_id, code) == [op |-> op, trip_id |-> trip_id, code |-> code]
NoStoreOp == StoreLog("none", "", 0)

\* create_trip (lines 74-83): the trip is stored under its own id, whatever was
\* stored there.
create_trip ==
    \E trip_id \in TripIds, body \in TripBodies :
        /\ trips_db' = [trips_db EXCEPT ![trip_id] = body]
        /\ store_log' = StoreLog("create_trip", trip_id, HTTP_201)
        /\ UNCHANGED <<geocode_vars, translate_vars, exchange_vars, consult_vars, stream_vars, places_vars,
                       chat_vars, exec_vars, plan_vars>>

\* update_trip (lines 93-110): 404 for an unknown id, else the stored trip is
\* replaced by the request's body.
update_trip ==
    \E trip_id \in TripIds, body \in TripBodies :
        /\ IF trips_db[trip_id] = NoTrip
           THEN /\ trips_db' = trips_db
                /\ store_log' = StoreLog("update_trip", trip_id, HTTP_404)
           ELSE /\ trips_db' = [trips_db EXCEPT ![trip_id] = body]
                /\ store_log' = StoreLog("update_trip", trip_id, HTTP_200)
        /\ UNCHANGED <<geocode_vars, translate_vars, exchange_vars, consult_vars, stream_vars, places_vars,
                       chat_vars, exec_vars, plan_vars>>

\* delete_trip (lines 120-134).
delete_trip ==
    \E trip_id \in TripIds :
        /\ IF trips_db[trip_id] = NoTrip
           THEN /\ trips_db' = trips_db
                /\ store_log' = StoreLog("delete_trip", trip_id, HTTP_404)
           ELSE /\ trips_db' = [trips_db EXCEPT ![trip_id] = NoTrip]
                /\ store_log' = StoreLog("delete_trip", trip_id, HTTP_204)
        /\ UNCHANGED <<geocode_vars, translate_vars, exchange_vars, consult_vars, stream_vars, places_vars,
                       chat_vars, exec_vars, plan_vars>>

\* update_trip_status (lines 144-161): 404 for an unknown id, else the stored
\* trip's status is set to new_status, any member of TripStatus.
update_trip_status ==
    \E trip_id \in TripIds, new_status \in TripStatuses :
        /\ IF trips_db[trip_id] = NoTrip
           THEN /\ trips_db' = trips_db
                /\ store_log' = StoreLog("update_trip_status", trip_id, HTTP_404)
           ELSE /\ trips_db' = [trips_db EXCEPT ![trip_id].status = new_status]
                /\ store_log' = StoreLog("update_trip_status", trip_id, HTTP_200)
        /\ UNCHANGED <<geocode_vars, translate_vars, exchange_vars, consult_vars, stream_vars, places_vars,
                       chat_vars, exec_vars, plan_vars>>

\* ---------------------------------------------------------- translate_text
\* tools/translate_tool.py and TravelConsultantAgent._handle_translate.  Phrases
\* and their translations are romanised.
COMMON_PHRASES_keys == {"ja", "en", "zh", "th"}
COMMON_PHRASES(language) ==
    CASE language = "ja" -> {"hello", "thank you", "how much is this"}
      [] language = "en" -> {"hello", "thank you"}
      [] OTHER -> {"hello"}

Strip(text) == IF text = " thank you " THEN "thank you" ELSE text
Lower(language) == IF language = "JA" THEN "ja" ELSE language

TranslateTexts == {"hello", "thank you", " thank you ", "how much is this",
                   "where is the station"}
TranslateLanguages == {"ja", "JA", "en", "fr"}
TranslateInputs ==
    { [text |-> t, target_language |-> tl, source_language |-> sl] :
        t \in TranslateTexts, tl \in TranslateLanguages, sl \in {"ko", "en"} }

TranslateDict(original, translated, target_language, needs_ai) ==
    [kind |-> "result", original |-> original, translated |-> translated,
     target_language |-> target_language, needs_ai_translation |-> needs_ai,
     error |-> "none"]
TranslateError(exc, original) ==
    [kind |-> "error", original |-> original, translated |-> NULL,
     target_language |-> "", needs_ai_translation |-> FALSE, error |-> exc]

\* translate_text (lines 61-109): the phrasebook's translation of the stripped
\* text, or a request for an AI translation.
translate_text(text, target_language) ==
    LET target == Lower(target_language)
    IN IF target \in COMMON_PHRASES_keys /\ Strip(text) \in COMMON_PHRASES(target)
       THEN TranslateDict(text, "phrasebook: " \o Strip(text), target, FALSE)
       ELSE TranslateDict(text, NULL, target, TRUE)

\* chat_completion's parameters (openai_service.py lines 42-48) and the keyword
\* arguments _handle_translate calls it with (lines 239-243).
chat_completion_params == {"messages", "tools", "tool_choice"}
TranslateKwargs == {"messages", "temperature", "max_completion_tokens"}

TranslateLog(requested, content) == [requested |-> requested, content |-> content]

\* _handle_translate (lines 219-251), a whole call.  When the phrasebook has no
\* entry and the backend is available, chat_completion is called; a call that
\* does not bind raises TypeError before any request, and every exception is
\* turned into an error payload (lines 249-251).
handle_translate ==
    \E in \in TranslateInputs :
        LET looked_up == translate_text(in.text, in.target_language)
        IN /\ tr_args' = in
           /\ IF ~(looked_up.needs_ai_translation /\ client_configured)
              THEN /\ tr_result' = looked_up
                   /\ tr_log' = TranslateLog(FALSE, NULL)
              ELSE IF ~BindsCall(TranslateKwargs, chat_completion_params)
              THEN /\ tr_result' = TranslateError("TypeError", in.text)
                   /\ tr_log' = TranslateLog(FALSE, NULL)
              ELSE \E outcome \in {"raise"} \cup Contents :
                   /\ tr_log' = TranslateLog(TRUE, IF outcome = "raise" THEN NULL ELSE outcome)
                   /\ tr_result' =
                        IF outcome = "raise" THEN TranslateError("OpenAIException", in.text)
                        ELSE TranslateDict(in.text, outcome, looked_up.target_language, FALSE)
           /\ UNCHANGED <<geocode_vars, store_vars, exchange_vars, consult_vars, stream_vars, places_vars,
                          chat_vars, exec_vars, plan_vars>>

StoreIdle ==
    /\ trips_db = [t \in TripIds |-> NoTrip]
    /\ store_log = NoStoreOp

TranslateIdle ==
    /\ tr_args = <<>>
    /\ tr_result = <<>>
    /\ tr_log = TranslateLog(FALSE, NULL)

ToolsIdle ==
    /\ ExchangeIdle /\ ConsultIdle /\ StreamIdle /\ PlacesIdle /\ StoreIdle /\ TranslateIdle
    /\ GeocodeIdle

\* ------------------------------------------------------------ specifications
PlanIdle ==
    /\ plan_pc = "idle"
    /\ plan_in = <<>>
    /\ llm = <<>>
    /\ exchange_info = <<>>
    /\ places_info = <<>>
    /\ search_log = <<>>
    /\ daily_plans = <<>>
    /\ plan_source = "none"
    /\ trip = <<>>

ServiceIdle ==
    /\ cc_pc = "idle"
    /\ cc_request = [tools |-> FALSE, tool_choice |-> "auto"]
    /\ cc_attempt = 0
    /\ cc_result = NoResult
    /\ cc_log = <<>>
    /\ pc = "idle"
    /\ messages = InitialMessages
    /\ current_messages = <<>>
    /\ tools_used = <<>>
    /\ iteration = 0
    /\ response = NoResult
    /\ tc_idx = 0
    /\ requests = <<>>
    /\ handler_log = <<>>
    /\ exec_log = <<>>
    /\ result = NoDict
    /\ PlanIdle
    /\ ToolsIdle

\* A run of execute_with_tools about to start, for any max_iterations.
Init ==
    /\ client_configured \in BOOLEAN
    /\ max_iterations \in 0..MaxIter
    /\ places_configured = FALSE
    /\ ServiceIdle

\* A generate_plan call about to start; its tool loop is given max_iterations=3
\* (line 342).
PlannerMaxIterations == 3

InitPlan ==
    /\ client_configured \in BOOLEAN
    /\ max_iterations = PlannerMaxIterations
    /\ places_configured = FALSE
    /\ ServiceIdle

Next ==
    \/ ExecuteWithTools
    \/ LoopCall
    \/ ChatCompletionAttempt
    \/ LoopResume
    \/ RecoveryResume
    \/ ExecuteToolCall
    \/ FinalCall
    \/ FinalResume

Spec == Init /\ [][Next]_vars

NextChat == ChatCompletionCall \/ ChatCompletionAttempt

SpecChat == Init /\ [][NextChat]_vars

NextPlan ==
    \/ GeneratePlan
    \/ GetExchangeRate
    \/ CollectPlaces
    \/ GenerateDailyPlans
    \/ BuildTrip

SpecPlan == InitPlan /\ [][NextPlan]_vars

\* generate_plan over the tool loop: one call for one or two styles.
PlannerInputs ==
    { [destination |-> "Osaka", start_date |-> 738000, end_date |-> 738000, travelers |-> 2,
       budget |-> 500000, styles |-> st] : st \in {<<"food">>, TwoStyles} }

NextPlanner ==
    \/ GeneratePlanOn(PlannerInputs)
    \/ GetExchangeRate
    \/ CollectPlaces
    \/ GenerateDailyPlansCall
    \/ (plan_pc = "calling" /\ ExecuteWithTools)
    \/ LoopCall
    \/ ChatCompletionAttempt
    \/ LoopResume
    \/ RecoveryResume
    \/ ExecuteToolCall
    \/ FinalCall
    \/ FinalResume
    \/ GenerateDailyPlansResume
    \/ (~client_configured /\ GenerateDailyPlans)
    \/ BuildTrip

SpecPlanner == InitPlan /\ [][NextPlanner]_vars

NextExchange == get_exchange_rate

\* A chat call about to start; its tool loop is given max_iterations=3 (line 109).
ConsultantMaxIterations == 3

InitConsult ==
    /\ client_configured \in BOOLEAN
    /\ max_iterations = ConsultantMaxIterations
    /\ places_configured = FALSE
    /\ ServiceIdle

NextConsult ==
    \/ ConsultantChat
    \/ (consult_pc = "calling" /\ ExecuteWithTools)
    \/ LoopCall
    \/ ChatCompletionAttempt
    \/ LoopResume
    \/ RecoveryResume
    \/ ExecuteToolCall
    \/ FinalCall
    \/ FinalResume
    \/ ConsultantChatResume

SpecConsult == InitConsult /\ [][NextConsult]_vars

NextStream == ConsultantStreamRequest \/ ChatStreamAdvance \/ SseClose

SpecStream == Init /\ [][NextStream]_vars

\* The places tool with and without an API key.
InitPlaces ==
    /\ client_configured = FALSE
    /\ max_iterations = PlannerMaxIterations
    /\ places_configured \in BOOLEAN
    /\ ServiceIdle

NextPlaces == search_places

SpecPlaces == InitPlaces /\ [][NextPlaces]_vars

\* Concurrent _geocode calls of a configured places tool.
InitGeocode ==
    /\ client_configured = FALSE
    /\ max_iterations = PlannerMaxIterations
    /\ places_configured = TRUE
    /\ ServiceIdle

NextGeocode == geocode \/ geocode_resume

SpecGeocode == InitGeocode /\ [][NextGeocode]_vars

SpecExchange == Init /\ [][NextExchange]_vars

\* The trip store, empty at start-up (line 13).
NextStore == create_trip \/ update_trip \/ delete_trip \/ update_trip_status

SpecStore == Init /\ [][NextStore]_vars

\* Calls of the consultant's translate handler.
NextTranslate == handle_translate

SpecTranslate == Init /\ [][NextTranslate]_vars

\* ---------------------------------------------------------- claims: the loop
Finished == pc \in {"returned", "raised"}

\* C1 as stated: for max_iterations >= 1 a run issues at most max_iterations
\* chat_completion calls in total, the recovery call and the post-loop final call
\* included.
C1_AtMostMaxIterationsCalls ==
    max_iterations >= 1 => Len(requests) <= max_iterations

LoopRequests == SelectSeq(requests, LAMBDA r : r.at = "loop")
ExtraRequests == SelectSeq(requests, LAMBDA r : r.at # "loop")

\* C1 amended: a run issues at most max_iterations calls from its loop and at most
\* one more (the recovery call or the post-loop final call), so at most
\* max_iterations + 1 in total.
C1_AtMostMaxIterationsPlusOneCalls ==
    /\ Len(LoopRequests) <= max_iterations
    /\ Len(ExtraRequests) <= 1
    /\ Len(requests) <= max_iterations + 1

C1_Witness ==
    /\ pc = "returned"
    /\ max_iterations >= 1
    /\ Len(requests) = max_iterations + 1
    /\ requests[Len(requests)].at = "recovery"

\* C2 as stated: whenever execute_with_tools returns, the returned content is
\* non-null, also when the recovery or the final completion carries no text.
C2_ReturnedContentNonNull ==
    pc = "returned" => result.content # NULL

\* C3: a handler that raises does not abort the run.  The step in which a handler
\* raises records the tool's name in tools_used, appends the error payload as that
\* call's tool result and goes on to the next call of the batch (or back to the loop
\* after the last one); a run never raises because of a handler, never runs more
\* than max_iterations loop iterations and is never stuck before it has finished.
HandlerRaisedStep ==
    /\ Len(exec_log') = Len(exec_log) + 1
    /\ exec_log'[Len(exec_log')].outcome = "raise"

C3_HandlerRaiseStepEffect ==
    HandlerRaisedStep =>
        LET tool_call == response.tool_calls[tc_idx]
        IN /\ pc' # "raised"
           /\ tools_used' = Append(tools_used, tool_call.name)
           /\ current_messages' = Append(current_messages,
                                         ToolMsg(tool_call.id, HandlerErrorPayload))
           /\ tc_idx < Len(response.tool_calls) => (pc' = "tools" /\ tc_idx' = tc_idx + 1)
           /\ tc_idx = Len(response.tool_calls) => pc' = "loop"

C3_RunNotAborted ==
    /\ iteration <= max_iterations
    /\ pc = "raised" =>
          \/ cc_pc = "raised"
          \/ (exec_log # <<>> /\ exec_log[Len(exec_log)].outcome = "bad_arguments")
    /\ pc = "returned" =>
          /\ Len(tools_used) = Len(exec_log)
          /\ \A i \in 1..Len(exec_log) : tools_used[i] = exec_log[i].name
    /\ (pc = "idle" \/ Finished \/ ENABLED (LoopCall \/ ChatCompletionAttempt \/ LoopResume
            \/ RecoveryResume \/ ExecuteToolCall \/ FinalCall \/ FinalResume))

C3_HandlerFailureIsolated ==
    []C3_RunNotAborted /\ [][C3_HandlerRaiseStepEffect]_vars

\* A run that returned although a handler raised, with a later call of the same
\* batch executed after the failed one.
C3_Witness ==
    /\ pc = "returned"
    /\ \E i \in 1..Len(exec_log) :
        /\ exec_log[i].outcome = "raise"
        /\ i < Len(exec_log)
        /\ exec_log[i + 1].outcome = "ok"
        /\ \E m \in 1..Len(current_messages) :
            /\ current_messages[m].role = "assistant"
            /\ \E a, b \in 1..Len(current_messages[m].tool_calls) :
                /\ b = a + 1
                /\ current_messages[m].tool_calls[a].id = exec_log[i].id
                /\ current_messages[m].tool_calls[b].id = exec_log[i + 1].id

\* C4: at every completion call the history holds, directly after each assistant
\* tool-call message, exactly one tool result per requested call, with the call's
\* id and in the order of the calls; and the handlers have been invoked in that
\* order.
IsToolCallMsg(m) == m.role = "assistant" /\ m.tool_calls # <<>>

\* The index of the assistant message that the tool message at index i answers and
\* its position in that batch, or <<0, 0>>.
RECURSIVE BatchOf(_, _)
BatchOf(ms, i) ==
    IF i <= 1 THEN <<0, 0>>
    ELSE IF IsToolCallMsg(ms[i - 1]) THEN <<i - 1, 1>>
    ELSE IF ms[i - 1].role = "tool"
         THEN LET b == BatchOf(ms, i - 1)
              IN IF b[1] = 0 THEN b ELSE <<b[1], b[2] + 1>>
    ELSE <<0, 0>>

WellFormedHistory(ms) ==
    /\ \A i \in 1..Len(ms) :
        IsToolCallMsg(ms[i]) =>
            LET n == Len(ms[i].tool_calls)
            IN /\ i + n <= Len(ms)
               /\ \A j \in 1..n :
                    /\ ms[i + j].role = "tool"
                    /\ ms[i + j].tool_call_id = ms[i].tool_calls[j].id
               /\ i + n < Len(ms) => ms[i + n + 1].role # "tool"
    /\ \A i \in 1..Len(ms) :
        ms[i].role = "tool" =>
            LET b == BatchOf(ms, i)
            IN b[1] # 0 /\ b[2] <= Len(ms[b[1]].tool_calls)

RECURSIVE KnownToolIds(_)
KnownToolIds(calls) ==
    IF calls = <<>> THEN <<>>
    ELSE (IF calls[1].name \in tool_handlers THEN <<calls[1].id>> ELSE <<>>)
         \o KnownToolIds(Tail(calls))

RECURSIVE RequestedHandlerIds(_)
RequestedHandlerIds(ms) ==
    IF ms = <<>> THEN <<>>
    ELSE KnownToolIds(ms[1].tool_calls) \o RequestedHandlerIds(Tail(ms))

C4_ToolResultsInRequestOrder ==
    /\ \A k \in 1..Len(requests) : WellFormedHistory(requests[k].messages)
    /\ pc \in {"loop", "await_loop", "await_recovery", "await_final", "returned"} =>
          handler_log = RequestedHandlerIds(current_messages)

\* A completion call whose history holds a batch of two or more calls, answered.
C4_Witness ==
    \E k \in 1..Len(requests) :
        \E i \in 1..Len(requests[k].messages) :
            /\ IsToolCallMsg(requests[k].messages[i])
            /\ Len(requests[k].messages[i].tool_calls) >= 2
            /\ Len(handler_log) >= 2

\* The run's first completion call has returned text and no tool calls, and the
\* run is about to look at it.
FirstResponseIsText ==
    /\ pc \in {"await_loop", "await_final"}
    /\ Len(requests) = 1
    /\ cc_pc = "returned"
    /\ Truthy(cc_result.content)
    /\ cc_result.tool_calls = <<>>

ReturnsFirstResponse ==
    /\ pc' = "returned"
    /\ requests' = requests
    /\ result'.iterations = 1
    /\ result'.tools_used = <<>>
    /\ result'.content = cc_result.content
    /\ handler_log' = <<>>

\* C15 as stated: if the model's first response has text and no tool calls, the run
\* returns after exactly one completion call with iterations = 1, tools_used = [],
\* content equal to that text, and no handler invoked.
C15_ImmediateTextAnswer ==
    [][FirstResponseIsText => ReturnsFirstResponse]_vars

\* C15 amended: the same for runs started with max_iterations >= 1.
C15_ImmediateTextAnswerInLoop ==
    [][(FirstResponseIsText /\ max_iterations >= 1) => ReturnsFirstResponse]_vars

C15_Witness ==
    /\ pc = "returned"
    /\ max_iterations >= 1
    /\ Len(requests) = 1
    /\ requests[1].at = "loop"
    /\ result = [content |-> "text", tools_used |-> <<>>, iterations |-> 1]
    /\ handler_log = <<>>

ErrorPayloads == {HandlerErrorPayload, UnknownToolPayload("bogus_tool")}

\* C16 as stated: a handler exception, an unknown tool name and an arguments
\* string that is not valid JSON are each answered with an error payload as that
\* call's tool result, and none of them aborts the run.
C16_ToolCallFailureIsolated ==
    \A i \in 1..Len(exec_log) :
        exec_log[i].outcome \in {"raise", "unknown", "bad_arguments"} =>
            \E j \in 1..Len(current_messages) :
                /\ current_messages[j].role = "tool"
                /\ current_messages[j].tool_call_id = exec_log[i].id
                /\ current_messages[j].content \in ErrorPayloads

\* --------------------------------------------------- claims: chat_completion
\* C10 as stated: a provider request that fails with a transient error is
\* re-attempted, up to 3 attempts in total; so a call that ends with the typed
\* failure of a transient error has made all 3 provider requests.
C10_TransientFailureIsRetried ==
    (cc_pc = "raised" /\ client_configured) => Len(cc_log) = MaxAttempts

\* C11: chat_completion returns only what a provider request of the call answered;
\* otherwise it raises a typed failure (a TravverException).  With the backend not
\* configured the failure is raised on the first attempt, without any provider
\* request and without a retry.
C11_NeverFabricatesResult ==
    /\ cc_pc = "returned" =>
            /\ cc_result.kind = "return"
            /\ cc_log # <<>>
            /\ cc_log[Len(cc_log)].ok
            /\ cc_result.content = cc_log[Len(cc_log)].content
            /\ cc_result.tool_calls = cc_log[Len(cc_log)].tool_calls
    /\ cc_pc = "raised" =>
            /\ cc_result.kind = "raise"
            /\ IsInstance(cc_result.exc, "TravverException")
            /\ \A i \in 1..Len(cc_log) : ~cc_log[i].ok
    /\ (cc_pc \in {"returned", "raised"} /\ ~client_configured) =>
            /\ cc_pc = "raised"
            /\ cc_result.exc = "OpenAIException"
            /\ cc_attempt = 1
            /\ cc_log = <<>>

C11_Witness ==
    /\ cc_pc = "raised"
    /\ ~client_configured
    /\ cc_result = Raised("OpenAIException")
    /\ cc_attempt = 1
    /\ cc_log = <<>>
    /\ Len(requests) = 1

\* ----------------------------------------------------- claims: exchange tool
Tagged(rate_info) == rate_info.has_is_fallback /\ rate_info.is_fallback

\* C12: a get_exchange_rate result taken from the static fallback table (the
\* provider request raised, answered with another status, or gave no usable rate)
\* carries is_fallback = true; a result built from a provider response, also when
\* it is later served from the cache, carries no is_fallback = true.
C12_FallbackTagging ==
    /\ (ex_log.requested /\ ex_log.outcome.kind # "rate") =>
            /\ Tagged(ex_result)
            /\ ex_result.rate = fallback_rates(ex_log.key[1], ex_log.key[2])
    /\ (ex_log.requested /\ ex_log.outcome.kind = "rate") =>
            /\ ~Tagged(ex_result)
            /\ ex_result.rate = ex_log.outcome.rate
    /\ ex_log.source = "cache" =>
            /\ ~ex_log.requested
            /\ ~Tagged(ex_result)
            /\ ex_result = ex_cache[ex_log.key]
    /\ \A k \in CacheKeys : ~Tagged(ex_cache[k])

\* A fallback answer for one pair while another pair's provider result is cached.
C12_Witness ==
    /\ ex_log.source = "fallback"
    /\ ex_log.outcome.kind = "status"
    /\ Tagged(ex_result)
    /\ \E k \in CacheKeys : ex_cache[k] # NoEntry /\ k # ex_log.key

\* ------------------------------------------------------ claims: generate_plan
NumDays == (plan_in.end_date - plan_in.start_date) + 1

\* C5 as stated: every generate_plan call that returns a Trip returns daily_plans of
\* length (end_date - start_date).days + 1 whose day fields are 1..N in order,
\* whether the plans come from the LLM reply or from the fallback generator.
C5_DailyPlansCoverPeriod ==
    plan_pc = "returned" =>
        /\ Len(trip.daily_plans) = NumDays
        /\ \A i \in 1..Len(trip.daily_plans) : trip.daily_plans[i].day = i

\* The soft failures C6 lists: backend not configured, the completion failing, a
\* null or empty reply, a reply without parseable JSON, a reply without one valid
\* daily plan.
SoftFailureReplies ==
    { NullContent, Text(<<>>), Text(<<PROSE>>), Text(<<LB, PROSE, RB>>),
      Text(<<RB, PROSE, LB>>), Text(<<LB, RB>>), Text(<<LB, Members(NoData), RB>>),
      Text(Obj(<<>>)), Text(Obj(<<PlanAllBad>>)), Text(Obj(<<PlanEmpty>>)),
      Text(Obj(<<PlanEmpty, PlanAllBad>>)) }

SoftFailure ==
    \/ llm = NotCalled /\ ~client_configured
    \/ llm = LlmRaise
    \/ llm.kind = "return" /\ llm.content \in SoftFailureReplies

FallbackPlans ==
    generate_mock_plans(plan_in.destination, plan_in.start_date, plan_in.end_date,
                        plan_in.budget, plan_in.styles, places_info)

\* C6: on a soft failure of the AI side generate_plan does not raise; it returns a
\* Trip whose daily plans are those of the fallback generator.
C6_SoftFailureFallsBack ==
    (plan_pc \in {"build", "returned", "raised"} /\ SoftFailure) =>
        /\ plan_pc # "raised"
        /\ plan_source = "mock"
        /\ daily_plans = FallbackPlans
        /\ plan_pc = "returned" => (trip.daily_plans = FallbackPlans /\ trip.daily_plans # <<>>)

\* The reply "not json at all", answered with a Trip of fallback plans.
C6_Witness ==
    /\ plan_pc = "returned"
    /\ client_configured
    /\ llm = LlmReturn(Text(<<PROSE>>))
    /\ trip.daily_plans = FallbackPlans
    /\ Len(trip.daily_plans) = NumDays

MockTimes == <<T("0", "9", "3", "0"), T("1", "1", "0", "0"), T("1", "3", "3", "0"),
               T("1", "5", "3", "0"), T("1", "8", "0", "0")>>
MockCategories == <<"food", "sightseeing", "food", "activity", "food">>

\* C7: with no LLM backend configured, a returned trip of N days (1 <= N <= 30) has
\* N daily plans, each with exactly 5 schedule items of order 1..5, at 09:30, 11:00,
\* 13:30, 15:30, 18:00, of categories food, sightseeing, food, activity, food, and
\* dated start_date + (day - 1).
C7_FallbackDayShape ==
    (plan_pc = "returned" /\ ~client_configured) =>
        /\ NumDays >= 1 /\ NumDays <= MaxTripDays
        /\ Len(trip.daily_plans) = NumDays
        /\ \A d \in 1..Len(trip.daily_plans) :
            LET plan == trip.daily_plans[d]
            IN /\ plan.day = d
               /\ plan.date = plan_in.start_date + (plan.day - 1)
               /\ Len(plan.schedules) = 5
               /\ \A k \in 1..5 :
                    /\ plan.schedules[k].order = k
                    /\ plan.schedules[k].time = MockTimes[k]
                    /\ plan.schedules[k].category = MockCategories[k]

C7_Witness ==
    /\ plan_pc = "returned"
    /\ ~client_configured
    /\ NumDays = MaxTripDays
    /\ plan_in.destination = "Jeju"
    /\ Len(trip.daily_plans) = MaxTripDays

\* C8 as stated: on the fallback path no place name occurs twice in the returned
\* trip, for every known destination and every period of 1..30 days.
C8_NoPlaceRepeatsInFallbackTrip ==
    (plan_pc = "returned" /\ ~client_configured
        /\ plan_in.destination \in KnownDestinations) =>
        \A d1, d2 \in 1..Len(trip.daily_plans) :
            \A k1, k2 \in 1..5 :
                <<d1, k1>> # <<d2, k2>> =>
                    trip.daily_plans[d1].schedules[k1].place
                        # trip.daily_plans[d2].schedules[k2].place

\* ------------------------------------------------- claims: parsing the reply
DigitVal(ch) ==
    CASE ch = "0" -> 0 [] ch = "1" -> 1 [] ch = "2" -> 2 [] ch = "3" -> 3 [] ch = "4" -> 4
      [] ch = "5" -> 5 [] ch = "6" -> 6 [] ch = "7" -> 7 [] ch = "8" -> 8 [] ch = "9" -> 9

ClockTime(time) ==
    /\ TimePattern(time)
    /\ 10 * DigitVal(time[1]) + DigitVal(time[2]) <= 23
    /\ 10 * DigitVal(time[4]) + DigitVal(time[5]) <= 59

\* C13 as stated: every schedule item parsed from an LLM reply has a time HH:MM
\* with hour 00..23 and minute 00..59.
C13_ParsedTimesAreClockTimes ==
    (plan_pc \in {"build", "returned"} /\ plan_source = "llm") =>
        \A d \in 1..Len(daily_plans) :
            \A k \in 1..Len(daily_plans[d].schedules) :
                ClockTime(daily_plans[d].schedules[k].time)

\* C14 as stated: a schedule item whose raw time is the range 09:00-10:40 is kept
\* in the parsed daily plan, its time set to the start bound 09:00.
C14_RangeTimeNormalisedToStart ==
    (plan_pc = "returned" /\ llm = LlmReturn(Text(Obj(<<PlanRange>>)))) =>
        \E d \in 1..Len(trip.daily_plans) :
            \E k \in 1..Len(trip.daily_plans[d].schedules) :
                /\ trip.daily_plans[d].schedules[k].place = ItemRange.place
                /\ trip.daily_plans[d].schedules[k].time = T("0", "9", "0", "0")

\* ------------------------------------------------------- claims: consultant
\* The canned response each message must get: food before currency before
\* translation, else the generic one.
ExpectedCanned(message) ==
    CASE message = "where to eat" -> "food tips"
      [] message = "money for food" -> "food tips"
      [] message = "how much is the yen" -> "currency tips"
      [] message = "say the rate" -> "currency tips"
      [] message = "how do I say thanks" -> "phrase list"
      [] message = "hello" -> "generic greeting"

\* C17: chat never raises for a backend failure; when the backend is unavailable
\* or the tool loop raises at any point, chat returns the canned response of the
\* message's keyword bucket with tools_used = [].
C17_ChatFallsBackToCanned ==
    /\ consult_pc # "raised"
    /\ ~client_configured => (consult_pc \in {"idle", "returned"} /\ requests = <<>>)
    /\ (consult_pc = "returned" /\ (~client_configured \/ pc = "raised")) =>
            consult_result = ConsultDict(ExpectedCanned(consult_in.message), <<>>)

\* The tool loop raised after it had already run a tool.
C17_Witness ==
    /\ consult_pc = "returned"
    /\ client_configured
    /\ pc = "raised"
    /\ tools_used # <<>>
    /\ consult_in.message = "money for food"
    /\ consult_result = ConsultDict("food tips", <<>>)

\* -------------------------------------------------------- claims: streaming
CannedChars ==
    UNION { {Chars(generate_fallback_response(m))[i] : i \in 1..CannedLen} : m \in ChatMessages }

\* C18 as stated: with the backend available and its stream not failing,
\* chat_stream yields exactly the backend stream's chunks, in order; canned text is
\* yielded only when the backend is unavailable or fails.
C18_StreamYieldsBackendChunks ==
    /\ (stream_pc = "done" /\ client_configured /\ ~stream_log.failed) =>
            (stream_log.requested /\ stream_out = stream_log.chunks)
    /\ (\E i \in 1..Len(stream_out) : stream_out[i] \in CannedChars) =>
            (~client_configured \/ stream_log.failed)

TerminalFrame(f) == f = DoneFrame \/ f = ErrorFrame

\* C19: the frames of a streaming response are data frames, one per chunk of
\* chat_stream and in its order, followed by exactly one terminal frame, [DONE] or
\* [ERROR]; nothing follows the terminal frame.
C19_FramesEndWithOneTerminal ==
    /\ \A i \in 1..Len(frames) : TerminalFrame(frames[i]) => i = Len(frames)
    /\ sse_pc = "running" => Len(frames) = Len(stream_out)
    /\ sse_pc \in {"terminal", "closed"} =>
            /\ Len(frames) = Len(stream_out) + 1
            /\ TerminalFrame(frames[Len(frames)])
    /\ \A i \in 1..Len(stream_out) : frames[i] = "data: " \o stream_out[i]

C19_Witness ==
    /\ sse_pc = "closed"
    /\ Len(frames) = CannedLen + 1
    /\ frames[Len(frames)] = DoneFrame
    /\ \A i \in 1..CannedLen : frames[i] # DoneFrame

\* ------------------------------------------------------ claims: places tool
MockNamesOf(loc_key) ==
    { MockEntry(loc_key, real_places_db(loc_key)[j], i) :
        j \in 1..Len(real_places_db(loc_key)), i \in 1..EntriesPerCategory }

BaselineDestination == "Osaka"

\* C20: when search_places has no API key, or its geocode or search request fails
\* or is refused, or a provider place is malformed, and max_results >= 1, it
\* returns between 1 and max_results mock places; they are the baseline
\* destination's when the location contains no known destination.
C20_SearchNeverEmptyOnFailure ==
    (sp_log.path \notin {"none", "provider"} /\ sp_args.max_results >= 1) =>
        /\ Len(sp_result) >= 1
        /\ Len(sp_result) <= sp_args.max_results
        /\ \A i \in 1..Len(sp_result) :
            /\ sp_result[i].mock
            /\ sp_args.location = "London" => sp_result[i].name \in MockNamesOf(BaselineDestination)
            /\ sp_args.location = "Tokyo" => sp_result[i].name \in MockNamesOf("Tokyo")

\* An unknown city whose geocoding is refused gets the baseline's food places.
C20_Witness ==
    /\ places_configured
    /\ sp_log.path = "geocode_not_ok"
    /\ sp_args = SearchArgs("museum", "London", MaxResults)
    /\ Len(sp_result) = EntriesPerCategory
    /\ sp_result[1].name = MockEntry("Osaka", "food", 1)

\* ------------------------------------------------------ claims: the trip store
StatusRank(trip_status) ==
    CHOOSE i \in 1..Len(TripStatus) : TripStatus[i] = trip_status

\* C21: the status of a stored trip only moves forward along upcoming ->
\* ongoing -> completed: no store operation takes a trip that stays stored from
\* a later status back to an earlier one.
C21_StatusOnlyMovesForward ==
    [][\A t \in TripIds :
          (trips_db[t] # NoTrip /\ trips_db'[t] # NoTrip)
              => StatusRank(trips_db'[t].status) >= StatusRank(trips_db[t].status)]_vars

\* ------------------------------------------- claims: generate_plan's stages
PlacesCollected == plan_pc \notin {"idle", "exchange", "places"}
LlmStageOver == plan_pc \in {"build", "returned", "raised"}
ToolCallingDisabled(request) == ~request.tools \/ request.tool_choice = "none"

\* C22: a generate_plan call with the backend configured issues exactly one
\* completion request, that request has tool calling disabled, and no request is
\* issued before the places have been collected.
C22_OneCompletionWithoutTools ==
    /\ requests # <<>> => PlacesCollected
    /\ Len(requests) >= 1 => ToolCallingDisabled(requests[1])
    /\ (LlmStageOver /\ client_configured) => Len(requests) = 1

SearchStarts(style) ==
    SelectSeq(search_log, LAMBDA e : e.ev = "start" /\ e.style = style)

\* C23: place collection calls search_places exactly once per requested style,
\* and every search is started before any of them has ended.
C23_OneSearchPerStyleDispatchedTogether ==
    PlacesCollected =>
        /\ \A i \in 1..Len(plan_in.styles) : Len(SearchStarts(plan_in.styles[i])) = 1
        /\ \A i, j \in 1..Len(search_log) :
              (search_log[i].ev = "start" /\ search_log[j].ev # "start") => i < j

InSearchLog(event) == \E k \in 1..Len(search_log) : search_log[k] = event
InSeq(x, seq) == \E k \in 1..Len(seq) : seq[k] = x

\* C24: once the places are collected, places_info has one entry per requested
\* style, in the request's order; every search of every style was made and has
\* ended, whichever of them raised, and a style's entry holds the results of
\* exactly its searches that returned; no completion is requested before that.
C24_StyleFailuresIsolated ==
    /\ (requests # <<>> \/ plan_pc = "calling") => PlacesCollected
    /\ PlacesCollected =>
        /\ Len(places_info) = Len(plan_in.styles)
        /\ Len(search_log) % 2 = 0
        /\ \A i \in 1..Len(plan_in.styles) :
            LET style == plan_in.styles[i]
                queries == style_queries(style)
            IN /\ places_info[i].style = style
               /\ \A q \in 1..Len(queries) :
                    /\ InSearchLog(SearchEvent("start", style, queries[q]))
                    /\ InSearchLog(SearchEvent("return", style, queries[q]))
                        \/ InSearchLog(SearchEvent("raise", style, queries[q]))
                    /\ InSearchLog(SearchEvent("return", style, queries[q]))
                        <=> InSeq(queries[q], places_info[i].places)

\* Every search of the first style raised, the second style's searches all
\* contributed, and the call returned a trip.
C24_Witness ==
    /\ plan_pc = "returned"
    /\ plan_in.styles = TwoStyles
    /\ \A q \in 1..3 : InSearchLog(SearchEvent("raise", "food", q))
    /\ places_info[1].places = <<>>
    /\ places_info[2] = [style |-> "sightseeing", places |-> <<1, 2, 3>>]

\* --------------------------------------- claims: the loop's completion requests
\* C25: the request of loop iteration i permits tool calls if and only if
\* i < max_iterations; the recovery request and the post-loop final request never
\* permit tool calls.
C25_ToolsPermittedOnlyBeforeLastIteration ==
    /\ \A i \in 1..Len(LoopRequests) :
          ~ToolCallingDisabled(LoopRequests[i]) <=> i < max_iterations
    /\ \A k \in 1..Len(ExtraRequests) : ToolCallingDisabled(ExtraRequests[k])

\* A run of two iterations whose second response was followed by one more request.
C25_Witness ==
    /\ pc = "returned"
    /\ max_iterations = 2
    /\ Len(LoopRequests) = 2
    /\ Len(ExtraRequests) = 1

NoText(content) == content = NULL \/ content = ""

\* C26: when an iteration's response has no tool calls and no text, the loop
\* issues one further request with tools disabled, and the run then makes no
\* other request and no other iteration and returns that completion's content,
\* whatever it is; when the response has text and no tool calls, the run returns
\* that text at once, with no further request.
C26_EmptyResponseRecovery ==
    [][/\ (pc = "await_loop" /\ cc_pc = "returned" /\ cc_result.tool_calls = <<>>) =>
            IF NoText(cc_result.content)
            THEN /\ pc' = "await_recovery"
                 /\ Len(requests') = Len(requests) + 1
                 /\ ToolCallingDisabled(requests'[Len(requests')])
                 /\ requests'[Len(requests')].messages = current_messages
                 /\ iteration' = iteration
            ELSE /\ pc' = "returned"
                 /\ result'.content = cc_result.content
                 /\ requests' = requests
       /\ pc = "await_recovery" =>
            /\ requests' = requests
            /\ iteration' = iteration
            /\ pc' \in {"await_recovery", "returned", "raised"}
            /\ pc' = "returned" =>
                    /\ cc_pc = "returned"
                    /\ result'.content = cc_result.content
                    /\ result'.iterations = iteration]_vars

\* The second iteration's response was empty and the recovery completion's
\* content, null, was returned.
C26_Witness ==
    /\ pc = "returned"
    /\ iteration = 2
    /\ Len(requests) = 3
    /\ requests[3].at = "recovery"
    /\ result.content = NULL

\* C27: when the loop has run max_iterations iterations to their end, each on a
\* response with tool calls, exactly one more request, with tools disabled, is
\* issued and its content is returned with iterations = max_iterations; with
\* max_iterations = 0 that request is the only one of the run.
C27_FinalCompletionAfterExhaustedLoop ==
    [][/\ (pc = "loop" /\ iteration = max_iterations) =>
            /\ pc' = "await_final"
            /\ Len(LoopRequests) = max_iterations
            /\ Len(requests') = Len(requests) + 1
            /\ ToolCallingDisabled(requests'[Len(requests')])
            /\ requests'[Len(requests')].messages = current_messages
       /\ pc = "await_final" =>
            /\ requests' = requests
            /\ iteration' = iteration
            /\ pc' \in {"await_final", "returned", "raised"}
            /\ pc' = "returned" =>
                    /\ cc_pc = "returned"
                    /\ result'.content = cc_result.content
                    /\ result'.iterations = max_iterations
       /\ (max_iterations = 0 /\ pc' \in {"returned", "raised"}) =>
            (Len(requests') = 1 /\ requests'[1].at = "final")]_vars

\* Two iterations of tool calls, then the final completion's content returned.
C27_Witness ==
    /\ pc = "returned"
    /\ max_iterations = 2
    /\ result.iterations = 2
    /\ Len(tools_used) >= 2
    /\ requests[Len(requests)].at = "final"
    /\ result.content = cc_result.content

\* ------------------------------------------------ claims: schedule items
ValidItems(items) == SelectSeq(items, ScheduleParses)
DayLevelError(plan_data) ==
    plan_data.date_kind = "invalid" \/ ~plan_data.has_day \/ plan_data.day < 1
KeptDays(plan_list) == SelectSeq(plan_list, LAMBDA pd : ValidItems(pd.schedules) # <<>>)

\* C28: for a reply whose days have valid day and date fields, every day with
\* at least one valid schedule item is in the parsed plans, in the reply's order,
\* with exactly its valid items in their order: an item that fails to parse or
\* validate removes only itself.
C28_BadItemDroppedOthersKept ==
    \A pl \in ReplyPlanLists :
        (/\ LlmStageOver
         /\ llm = LlmReturn(Text(Obj(pl)))
         /\ KeptDays(pl) # <<>>
         /\ \A i \in 1..Len(KeptDays(pl)) : ~DayLevelError(KeptDays(pl)[i])) =>
            /\ plan_source = "llm"
            /\ Len(daily_plans) = Len(KeptDays(pl))
            /\ \A i \in 1..Len(KeptDays(pl)) :
                LET valid == ValidItems(KeptDays(pl)[i].schedules)
                IN /\ daily_plans[i].day = KeptDays(pl)[i].day
                   /\ daily_plans[i].schedules = [k \in 1..Len(valid) |-> ParsedSchedule(valid[k])]

\* A day with a missing field, an unknown category, a duration and a latitude out
\* of range, and two valid items, followed by a valid day.
C28_Witness ==
    /\ plan_pc = "returned"
    /\ llm = LlmReturn(Text(Obj(<<PlanOneOfEach, Day(2)>>)))
    /\ Len(trip.daily_plans) = 2
    /\ trip.daily_plans[1].schedules = <<ParsedSchedule(ItemOk1), ParsedSchedule(ItemOk2)>>
    /\ Len(trip.daily_plans[2].schedules) = 2

\* ----------------------------------------- claims: the consultant's messages
\* One system message, the last min(10, len(history)) turns in their order, the
\* current user message.
TrimmedConversation(in) ==
    LET n == Len(in.history)
        m == IF n < 10 THEN n ELSE 10
    IN [i \in 1..(m + 2) |->
            IF i = 1 THEN Msg("system", "prompt")
            ELSE IF i = m + 2 THEN Msg("user", in.message)
            ELSE in.history[(n - m) + (i - 1)]]

\* C29, for chat: the first completion request of a chat call carries exactly
\* the system message, the last ten history turns and the user message, and
\* every later request of the call starts with that list.
C29_ChatSendsTrimmedHistory ==
    (consult_pc # "idle" /\ requests # <<>>) =>
        /\ requests[1].messages = TrimmedConversation(consult_in)
        /\ \A k \in 1..Len(requests) :
              SubSeq(requests[k].messages, 1, Len(TrimmedConversation(consult_in)))
                  = TrimmedConversation(consult_in)

\* C29, for chat_stream: once a chat_stream call with the backend configured has
\* been started, it has sent the backend exactly the system message, the last
\* ten history turns and the user message.
C29_StreamSendsTrimmedHistory ==
    (client_configured /\ stream_pc \notin {"idle", "created"}) =>
        /\ stream_log.requested
        /\ stream_log.messages = TrimmedConversation(stream_in)

\* ------------------------------------------------ claims: translate handler
AbsentFromPhrasebook(in) ==
    ~(/\ Lower(in.target_language) \in COMMON_PHRASES_keys
      /\ Strip(in.text) \in COMMON_PHRASES(Lower(in.target_language)))

\* C30: for a phrase absent from the phrasebook, with the backend available, the
\* translate handler makes a completion request and returns a result, not an
\* error payload, whose translated field is that completion's text and whose
\* needs_ai_translation is false.
C30_AbsentPhraseTranslatedByCompletion ==
    (tr_args # <<>> /\ client_configured /\ AbsentFromPhrasebook(tr_args)) =>
        /\ tr_log.requested
        /\ tr_result.kind = "result"
        /\ tr_result.translated = tr_log.content
        /\ ~tr_result.needs_ai_translation

\* ------------------------------------------------- claims: the geocode cache
\* caller c starts a _geocode call in this step
GeocodeStarts(c) == geo_calls[c].pc # "awaiting" /\ geo_calls'[c] # geo_calls[c]
\* caller c's lookup fails in this step
GeocodeFails(c) ==
    /\ geo_calls[c].pc = "awaiting"
    /\ geo_calls'[c].pc = "raised" \/ (geo_calls'[c].pc = "returned"
                                        /\ geo_calls'[c].coords = NoCoords)
HitsCache(c, l) ==
    (GeocodeStarts(c) /\ geo_calls'[c].location = l) =>
        (/\ geo_calls'[c] = GeocodeCallState("returned", l, geocode_cache[l], FALSE)
         /\ geo_log' = geo_log)

\* C31 as stated: once a location has an entry the entry never changes, every
\* call started for that location returns it without a provider request, and a
\* failed lookup leaves the cache as it is.
C31_GeocodeMemoized ==
    [][/\ \A l \in GeocodeLocations :
            geocode_cache[l] # NoCoords =>
                /\ geocode_cache'[l] = geocode_cache[l]
                /\ \A c \in GeocodeCallers : HitsCache(c, l)
       /\ \A c \in GeocodeCallers : GeocodeFails(c) => geocode_cache' = geocode_cache]_vars

\* C31 amended: once a location has an entry it always has one, every call
\* started for that location returns the entry of that moment without a provider
\* request, and the entry changes only when a lookup that was already waiting for
\* its response succeeds, to the coordinates of that response; a failed lookup
\* leaves the cache as it is.
C31_GeocodeMemoizedUntilOverwritten ==
    [][/\ \A l \in GeocodeLocations :
            geocode_cache[l] # NoCoords =>
                /\ geocode_cache'[l] # NoCoords
                /\ \A c \in GeocodeCallers : HitsCache(c, l)
                /\ geocode_cache'[l] # geocode_cache[l] =>
                        \E c \in GeocodeCallers :
                            /\ geo_calls[c] = GeocodeCallState("awaiting", l, NoCoords, TRUE)
                            /\ geo_calls'[c] =
                                    GeocodeCallState("returned", l, geocode_cache'[l], TRUE)
       /\ \A c \in GeocodeCallers : GeocodeFails(c) => geocode_cache' = geocode_cache]_vars

\* One call was answered from the cache while the other's lookup for the same
\* location had failed.
C31_Witness ==
    /\ geocode_cache["Tokyo"] # NoCoords
    /\ geo_calls[1] = GeocodeCallState("returned", "Tokyo", geocode_cache["Tokyo"], FALSE)
    /\ geo_calls[2] = GeocodeCallState("returned", "Tokyo", NoCoords, TRUE)

\* C32: under every interleaving, each cache entry is a pair the provider
\* returned for that very location, and every call that has returned gave None
\* or a pair the provider returned for the call's own location.
C32_CacheEntriesBelongToTheirKey ==
    /\ \A l \in Locations :
            geocode_cache[l] # NoCoords => <<l, geocode_cache[l]>> \in geo_log
    /\ \A c \in GeocodeCallers :
            (geo_calls[c].pc = "returned" /\ geo_calls[c].coords # NoCoords) =>
                <<geo_calls[c].location, geo_calls[c].coords>> \in geo_log

\* Two lookups for one location overlapped and were given different pairs, while
\* the other location holds its own pair.
C32_Witness ==
    /\ geo_calls[1] = GeocodeCallState("returned", "Tokyo", <<1, 1>>, TRUE)
    /\ geo_calls[2] = GeocodeCallState("returned", "Tokyo", <<2, 2>>, TRUE)
    /\ geocode_cache["Tokyo"] = <<2, 2>>
    /\ geocode_cache["London"] = <<1, 1>>

\* ------------------------------------- claims: fallback for unknown destinations
SlotNames(slot) == {slot[i].name : i \in 1..Len(slot)}
RealPlaceNames(places) ==
    SlotNames(places.breakfast) \cup SlotNames(places.sightseeing) \cup SlotNames(places.lunch)
    \cup SlotNames(places.activity) \cup SlotNames(places.dinner)

\* C33: for a destination that is not in the static table the fallback itinerary
\* is a generic template: none of its schedule items is a real place entry of a
\* known destination.
C33_UnknownDestinationGetsGenericTemplate ==
    (plan_pc = "returned" /\ plan_source = "mock"
        /\ plan_in.destination \notin KnownDestinations) =>
        \A d \in 1..Len(trip.daily_plans) :
            \A k \in 1..Len(trip.daily_plans[d].schedules) :
                trip.daily_plans[d].schedules[k].place
                    \notin (RealPlaceNames(places_db_Osaka) \cup RealPlaceNames(places_db_Jeju))

\* ------------------------------------------------ claims: JSON extraction
\* Replies with the JSON object in a fenced block: without and with braces in the
\* prose before the fence.
FencedReplies ==
    { Text(<<PROSE, FENCE>> \o Obj(<<Day(1)>>) \o <<FENCE>>),
      Text(<<PROSE, LB, PROSE, RB, FENCE>> \o Obj(<<Day(1)>>) \o <<FENCE>>) }

\* C34: a reply whose JSON is in a fenced code block is parsed from the fenced
\* content, whatever braces the prose outside the fence has: the plans are those
\* of the fenced object.
C34_FencedBlockParsedFirst ==
    (LlmStageOver /\ llm.kind = "return" /\ llm.content \in FencedReplies) =>
        /\ plan_source = "llm"
        /\ daily_plans = <<DailyPlan(1, plan_in.start_date, "theme",
                                     <<ParsedSchedule(ItemOk1), ParsedSchedule(ItemOk2)>>)>>

\* --------------------------------------------- claims: all LLM or all fallback
FromFallback(plan) ==
    \E k \in 1..Len(plan.schedules) :
        plan.schedules[k].place
            \in (RealPlaceNames(places_db_Osaka) \cup RealPlaceNames(places_db_Jeju))

\* C35: the daily plans _generate_daily_plans returns are the complete fallback
\* itinerary or hold no fallback day at all; a reply one of whose days with valid
\* items has a missing or invalid day or date yields the complete fallback
\* itinerary, the days parsed before it included.
C35_AllParsedOrAllFallback ==
    LlmStageOver =>
        /\ plan_pc # "raised"
        /\ plan_source = "mock" => daily_plans = FallbackPlans
        /\ plan_source = "llm" =>
                (llm.kind = "return"
                 /\ \A d \in 1..Len(daily_plans) : ~FromFallback(daily_plans[d]))
        /\ \A pl \in ReplyPlanLists :
                (/\ llm = LlmReturn(Text(Obj(pl)))
                 /\ \E i \in 1..Len(KeptDays(pl)) : DayLevelError(KeptDays(pl)[i])) =>
                    (plan_source = "mock" /\ daily_plans = FallbackPlans)

\* A valid day 1 followed by a day without its day field: the trip is the
\* fallback itinerary.
C35_Witness ==
    /\ plan_pc = "returned"
    /\ llm = LlmReturn(Text(Obj(<<Day(1), PlanNoDay>>)))
    /\ plan_source = "mock"
    /\ trip.daily_plans = FallbackPlans
    /\ trip.daily_plans # <<>>

CannedOf(in) == Chars(generate_fallback_response(in.message))

\* C37: what one chat_stream call has yielded so far is either backend chunks
\* only or the leading characters of the canned response to its message only,
\* and when the call is over the output is all of one or all of the other: never
\* backend chunks followed by the canned text.
C37_StreamOutputNotMixed ==
    stream_pc # "idle" =>
        /\ \/ \A i \in 1..Len(stream_out) : stream_out[i] \in BackendChunks
           \/ /\ Len(stream_out) <= CannedLen
              /\ stream_out = SubSeq(CannedOf(stream_in), 1, Len(stream_out))
        /\ stream_pc = "done" =>
              \/ stream_out = stream_log.chunks
              \/ stream_out = CannedOf(stream_in)

\* A finished call with the backend configured whose whole output is the canned
\* response to a question about food.
C37_Witness ==
    /\ stream_pc = "done"
    /\ client_configured
    /\ stream_in.message = "where to eat"
    /\ stream_out = CannedOf(stream_in)
    /\ Len(stream_out) = CannedLen
    /\ stream_log.chunks = <<>>

\* ------------------------------------------------ claims: unknown tool names
\* C38 as stated: a tool call naming a function that has no entry in
\* tool_handlers invokes no handler, is recorded in tools_used, is answered with
\* the Unknown tool payload as its tool result, and does not end the run.
C38_UnknownToolAnswered ==
    \A i \in 1..Len(exec_log) :
        exec_log[i].name \notin tool_handlers =>
            /\ ~InSeq(exec_log[i].id, handler_log)
            /\ i <= Len(tools_used)
            /\ tools_used[i] = exec_log[i].name
            /\ InSeq(ToolMsg(exec_log[i].id, UnknownToolPayload(exec_log[i].name)),
                     current_messages)
            /\ ~(pc = "raised" /\ i = Len(exec_log) /\ cc_pc # "raised")

\* ------------------------------------------- claims: the caller's message list
AppendedMessages == SubSeq(current_messages, Len(messages) + 1, Len(current_messages))

\* C39: execute_with_tools leaves the caller's messages list as it was passed in.
\* Throughout a run and after it, returned or raised, the caller's list is still
\* the initial system and user messages; the run's own list starts with them and
\* everything after them is an assistant or a tool message.
C39_CallerMessagesUnchanged ==
    /\ messages = InitialMessages
    /\ pc # "idle" =>
            /\ Len(current_messages) >= Len(messages)
            /\ SubSeq(current_messages, 1, Len(messages)) = messages
            /\ \A k \in 1..Len(AppendedMessages) :
                    AppendedMessages[k].role \in {"assistant", "tool"}

\* A run that raised after an assistant message and a tool message were appended.
C39_Witness ==
    /\ pc = "raised"
    /\ messages = InitialMessages
    /\ Len(AppendedMessages) >= 2
    /\ AppendedMessages[1].role = "assistant"
    /\ AppendedMessages[2].role = "tool"

====
